---- MODULE Spec2Model ----
(***************************************************************************)
(* A model of the entwine builder: the Builder driver (run, runInserts,    *)
(* tryInsert, insert), the ChunkCache with its reference-counted slice     *)
(* entries, the per-worker Clipper, and the Chunk (grid, overflow buckets, *)
(* split).  Chunk, ReffedChunk and Builder are translated from the sources *)
(* under src/; ChunkCache's and Clipper's member functions, Key, ChunkKey, *)
(* Bounds and Hierarchy are not among the sources and follow the written   *)
(* specification.                                                          *)
(***************************************************************************)
EXTENDS Integers, Sequences, FiniteSets, TLC

(***************************************************************************)
(* Bounds of the model.                                                    *)
(***************************************************************************)
\* log2 of the edge of the cubic root bounds [0, 2^LogSize)^3
LogSize == 3
\* number of manifest entries
NumSources == 2
\* points delivered by all readers together in a build with concurrent workers
MaxPoints == 3
\* points delivered to the one worker of a build that clips repeatedly
ClipPoints == 6
\* points delivered in a build over a varied manifest
BuildPoints == 2
\* points delivered to the one worker of a build that fills several buckets
SplitPoints == 4
\* capacity of the streaming point table (points per batch)
BatchSize == 2
\* stand-in for heuristics::sleepCount: a clip after more than this many points
SleepCount == 1
\* stand-in for heuristics::cacheSize: unreferenced chunks kept alive
CacheSize == 0
\* the calls of save on one Builder: the one of run, and those after it
MaxSaves == 2
\* stand-in for heuristics::maxHierarchyNodesPerFile
MaxHierarchyNodesPerFile == 2

(***************************************************************************)
(* Program constants.                                                      *)
(***************************************************************************)
\* metadata.span is 2^StartDepth: the grid of a chunk has span x span tubes
StartDepth == 1
\* maxDepth, the size of the arrays the cache and the Clipper keep per depth,
\* scaled down
MaxDepth == 8
\* the number of octants of a chunk (dirEnd())
DirEnd == 8

Pow2(n) == 2 ^ n
Size == Pow2(LogSize)
Span == Pow2(StartDepth)
Dirs == 0 .. (DirEnd - 1)

Min2(a, b) == IF a < b THEN a ELSE b

RECURSIVE SumSeq(_)
SumSeq(s) == IF s = <<>> THEN 0 ELSE Head(s) + SumSeq(Tail(s))

(***************************************************************************)
(* Points, keys and bounds.  A point is <<x, y, z>> in integer             *)
(* coordinates.  A Key is a cell of the octree: lv halvings of the root    *)
(* cube, at integer position pos; its bounds are                           *)
(*    [pos * Size / 2^lv, (pos + 1) * Size / 2^lv)  on each axis.          *)
(* Comparisons are made on coordinates scaled by 2^(lv+1), so that the     *)
(* midpoint of a cell is integral at every depth.                          *)
(***************************************************************************)
Axes == 1 .. 3

\* twice the midpoint of key k on axis i, scaled by 2^k.lv
Mid2(k, i) == (2 * k.pos[i] + 1) * Size

\* twice coordinate c, scaled by 2^lv
Scaled2(c, lv) == c * Pow2(lv + 1)

\* Bounds::contains for the bounds of key k: min <= p < max on every axis
KeyContains(k, p) ==
    \A i \in Axes :
        /\ p[i] * Pow2(k.lv) >= k.pos[i] * Size
        /\ p[i] * Pow2(k.lv) < (k.pos[i] + 1) * Size

\* Point::sqDist3d(key.bounds().mid()), scaled by 4^(lv+1)
SqDistToMid(k, p) ==
    LET d(i) == Scaled2(p[i], k.lv) - Mid2(k, i)
    IN  d(1) * d(1) + d(2) * d(2) + d(3) * d(3)

\* getDirection(mid, p): bit 0 east (x), bit 1 north (y), bit 2 up (z)
GetDirection(k, p) ==
      (IF Scaled2(p[1], k.lv) >= Mid2(k, 1) THEN 1 ELSE 0)
    + (IF Scaled2(p[2], k.lv) >= Mid2(k, 2) THEN 2 ELSE 0)
    + (IF Scaled2(p[3], k.lv) >= Mid2(k, 3) THEN 4 ELSE 0)

DirBit(dir, i) == (dir \div Pow2(i - 1)) % 2

\* a step that goes down two levels at once
StepDirTwice(k, dir) ==
    [lv |-> k.lv + 2, pos |-> [i \in Axes |-> 4 * k.pos[i] + 3 * DirBit(dir, i)]]

\* Key::step(dir) and ChunkKey::getStep(dir): descend into octant dir
StepDir(k, dir) ==
    [lv |-> k.lv + 1, pos |-> [i \in Axes |-> 2 * k.pos[i] + DirBit(dir, i)]]

\* Key::step(point)
KeyStep(k, p) == StepDir(k, GetDirection(k, p))

RootKey == [lv |-> 0, pos |-> <<0, 0, 0>>]

RECURSIVE Descend(_, _, _)
Descend(k, p, n) == IF n = 0 THEN k ELSE Descend(KeyStep(k, p), p, n - 1)

\* Key::init(point, depth): from the root down to the resolution of the grid
\* of a chunk at this depth
KeyInit(p, depth) == Descend(RootKey, p, StartDepth + depth)

\* ChunkKey::init(point, depth); ChunkKey::reset() is ChunkInit(p, 0)
ChunkInit(p, depth) == Descend(RootKey, p, depth)

\* ChunkKey::dxyz(): the stable name of a chunk
Dxyz(ck) == <<ck.lv, ck.pos[1], ck.pos[2], ck.pos[3]>>

\* the chunk key named by a dxyz
KeyOf(dxyz) == [lv |-> dxyz[1], pos |-> <<dxyz[2], dxyz[3], dxyz[4]>>]

\* child keys listed one octant off
ChildAtNext(ck, dir) == StepDir(ck, (dir + 1) % DirEnd)

\* Chunk::childAt(dir)
ChildAt(ck, dir) == StepDir(ck, dir)

(***************************************************************************)
(* Hierarchy: a sparse map dxyz -> count.                                  *)
(***************************************************************************)
\* hierarchy::get: the count, 0 when absent
HierGet(h, dxyz) == IF dxyz \in DOMAIN h THEN h[dxyz] ELSE 0

\* hierarchy::set
HierSet(h, dxyz, np) ==
    [k \in (DOMAIN h) \cup {dxyz} |-> IF k = dxyz THEN np ELSE h[k]]

EmptyMap == [k \in {} |-> 0]

RECURSIVE SumMap(_, _)
SumMap(f, keys) ==
    IF keys = {} THEN 0
    ELSE LET k == CHOOSE x \in keys : TRUE
         IN  f[k] + SumMap(f, keys \ {k})

HierSum(h) == SumMap(h, DOMAIN h)

(***************************************************************************)
(* Chunk: a grid of voxel tubes fed by one block (gridBlock), and up to    *)
(* eight overflow buckets.  The grid is kept as the sequence of the slots  *)
(* of gridBlock in allocation order; a slot belongs to the cell (tube, z)  *)
(* it was allocated for and holds the point currently stored in that cell. *)
(* A point is a record [p |-> <<x, y, z>>, o |-> origin, id |-> pointId].  *)
(* Each slot also remembers, in order, the points that have arrived at its *)
(* cell (arrived): history, read by no operation.                          *)
(***************************************************************************)

\* a constructor that makes every bucket
NewChunkWhole(ck, h) ==
    [ grid    |-> <<>>,
      ov      |-> [i \in Dirs |-> [present |-> TRUE, list |-> <<>>]],
      ovCount |-> 0,
      ovLock  |-> 0 ]

\* Chunk::Chunk: bucket i is made unless the hierarchy already counts points
\* for the child at dir i
NewChunk(ck, h) ==
    [ grid    |-> <<>>,
      ov      |-> [i \in Dirs |->
                     [present |-> HierGet(h, Dxyz(ChildAt(ck, i))) = 0,
                      list    |-> <<>>]],
      ovCount |-> 0,
      ovLock  |-> 0 ]

\* the index of the tube of a key position: (pos.y % span) * span + pos.x % span
TubeOf(pos) == (pos[2] % Span) * Span + (pos[1] % Span)

\* a lookup that finds the first slot for every cell
SlotOfFirst(grid, pos) == IF grid = <<>> THEN 0 ELSE 1

\* the slot of gridBlock that cell (tube, z) owns, 0 when the cell is empty
SlotOf(grid, pos) ==
    LET hit == {j \in 1 .. Len(grid) :
                   grid[j].tube = TubeOf(pos) /\ grid[j].z = pos[3]}
    IN  IF hit = {} THEN 0 ELSE CHOOSE j \in hit : TRUE

\* a comparison that lets the arriving point win a tie
CloserOrEqual(key, arriving, resident) ==
    SqDistToMid(key, arriving) <= SqDistToMid(key, resident)

\* a comparison that also lets a point of the same coordinates take the cell
CloserOrSamePlace(key, arriving, resident) ==
    \/ SqDistToMid(key, arriving) < SqDistToMid(key, resident)
    \/ arriving = resident

\* the comparison of Chunk::insert: does the arriving point take the cell?
Closer(key, arriving, resident) ==
    SqDistToMid(key, arriving) < SqDistToMid(key, resident)

\* the bucket maybeOverflow selects: scanning 0..7, a present bucket replaces
\* the selection only when strictly larger.  <<index, size>>
RECURSIVE SelectFrom(_, _, _, _)
SelectFrom(ov, d, selIndex, selSize) ==
    IF d = DirEnd THEN <<selIndex, selSize>>
    ELSE IF ov[d].present /\ Len(ov[d].list) > selSize
         THEN SelectFrom(ov, d + 1, d, Len(ov[d].list))
         ELSE SelectFrom(ov, d + 1, selIndex, selSize)

\* a selection that takes the last of the largest buckets
SelectOverflowLast(ov) ==
    LET full == {d \in Dirs : ov[d].present /\ Len(ov[d].list) > 0}
    IN  IF full = {} THEN <<0, 0>>
        ELSE LET d == CHOOSE x \in full : \A e \in full :
                          \/ Len(ov[e].list) < Len(ov[x].list)
                          \/ Len(ov[e].list) = Len(ov[x].list) /\ e <= x
             IN  <<d, Len(ov[d].list)>>

SelectOverflow(ov) == SelectFrom(ov, 0, 0, 0)

\* a policy that does not look at the resident size
MaybeOverflowAnyTotal(c, conf) ==
    IF SelectOverflow(c.ov)[2] < conf.minNodeSize THEN -1
    ELSE SelectOverflow(c.ov)[1]

\* a policy that splits on the count alone, whatever the size of the bucket
MaybeOverflowOnCount(c, conf) ==
    IF Len(c.grid) + c.ovCount < conf.maxNodeSize THEN -1
    ELSE SelectOverflow(c.ov)[1]

\* Chunk::maybeOverflow: the octant to split, or -1 for none
MaybeOverflow(c, conf) ==
    LET ourSize == Len(c.grid) + c.ovCount
        sel     == SelectOverflow(c.ov)
    IN  IF ourSize < conf.maxNodeSize THEN -1
        ELSE IF sel[2] < conf.minNodeSize THEN -1
        ELSE sel[1]

\* a detach that leaves the count as it was
DetachKeepingCount(c, dir) ==
    [c EXCEPT !.ov[dir] = [present |-> FALSE, list |-> <<>>]]

\* Chunk::doOverflow, the bookkeeping: detach bucket dir and subtract its size
Detach(c, dir) ==
    [c EXCEPT !.ov[dir] = [present |-> FALSE, list |-> <<>>],
              !.ovCount = c.ovCount - Len(c.ov[dir].list)]

\* a loop over the detached entries from the last to the first
MovedBackwards(list) ==
    [j \in 1 .. Len(list) |->
        [pt  |-> list[Len(list) + 1 - j].pt,
         key |-> KeyStep(list[Len(list) + 1 - j].key, list[Len(list) + 1 - j].pt.p)]]

\* Chunk::doOverflow, the entries handed to the child: each key stepped by its
\* own point, in list order
Moved(list) ==
    [j \in 1 .. Len(list) |->
        [pt |-> list[j].pt, key |-> KeyStep(list[j].key, list[j].pt.p)]]

\* an insertOverflow that does not look at the depth of the chunk
InsertOverflowAtAnyDepth(c, ck, pt, key, conf) ==
    LET dir == GetDirection(ck, pt.p)
        c1  == [c EXCEPT
                   !.ov[dir].list = Append(@, [pt |-> pt, key |-> key]),
                   !.ovCount = @ + 1]
        sel == IF c1.ovCount >= conf.minNodeSize
               THEN MaybeOverflow(c1, conf) ELSE -1
    IN  IF ~c.ov[dir].present
        THEN [chunk |-> c, ret |-> FALSE, split |-> -1, moved |-> <<>>]
        ELSE IF sel = -1
        THEN [chunk |-> c1, ret |-> TRUE, split |-> -1, moved |-> <<>>]
        ELSE [chunk |-> Detach(c1, sel), ret |-> TRUE, split |-> sel,
              moved |-> Moved(c1.ov[sel].list)]

\* an insertOverflow that makes the bucket anew when it is absent
InsertOverflowRevived(c, ck, pt, key, conf) ==
    LET dir == GetDirection(ck, pt.p)
        c1  == [c EXCEPT
                   !.ov[dir] = [present |-> TRUE,
                                list |-> Append(@.list, [pt |-> pt, key |-> key])],
                   !.ovCount = @ + 1]
        sel == IF c1.ovCount >= conf.minNodeSize
               THEN MaybeOverflow(c1, conf) ELSE -1
    IN  IF ck.lv < conf.sharedDepth
        THEN [chunk |-> c, ret |-> FALSE, split |-> -1, moved |-> <<>>]
        ELSE IF sel = -1
        THEN [chunk |-> c1, ret |-> TRUE, split |-> -1, moved |-> <<>>]
        ELSE [chunk |-> Detach(c1, sel), ret |-> TRUE, split |-> sel,
              moved |-> Moved(c1.ov[sel].list)]

\* Chunk::insertOverflow.  [chunk, ret, split, moved]: ret is the return value,
\* split the octant doOverflow detached (-1 for none), moved what it re-inserts
InsertOverflow(c, ck, pt, key, conf) ==
    LET dir == GetDirection(ck, pt.p)
        no  == [chunk |-> c, ret |-> FALSE, split |-> -1, moved |-> <<>>]
    IN  IF ck.lv < conf.sharedDepth THEN no
        ELSE IF ~c.ov[dir].present THEN no
        ELSE LET c1  == [c EXCEPT
                            !.ov[dir].list = Append(@, [pt |-> pt, key |-> key]),
                            !.ovCount = @ + 1]
                 sel == IF c1.ovCount >= conf.minNodeSize
                        THEN MaybeOverflow(c1, conf) ELSE -1
             IN  IF sel = -1
                 THEN [chunk |-> c1, ret |-> TRUE, split |-> -1, moved |-> <<>>]
                 ELSE [chunk |-> Detach(c1, sel), ret |-> TRUE, split |-> sel,
                       moved |-> Moved(c1.ov[sel].list)]

\* Chunk::insert.  [chunk, ret, out, split, moved]: out is the point the caller
\* goes on with when ret is FALSE (the loser of the cell)
ChunkInsert(c, ck, pt, key, conf) ==
    LET j == SlotOf(c.grid, key.pos)
    IN  IF j = 0
        THEN [chunk |-> [c EXCEPT !.grid = Append(@,
                            [tube |-> TubeOf(key.pos), z |-> key.pos[3], pt |-> pt,
                             arrived |-> <<pt>>])],
              ret |-> TRUE, out |-> pt, split |-> -1, moved |-> <<>>]
        ELSE LET swap  == Closer(key, pt.p, c.grid[j].pt.p)
                 loser == IF swap THEN c.grid[j].pt ELSE pt
                 c0    == [c EXCEPT !.grid[j].arrived = Append(@, pt)]
                 c1    == IF swap THEN [c0 EXCEPT !.grid[j].pt = pt] ELSE c0
                 r     == InsertOverflow(c1, ck, loser, key, conf)
             IN  [chunk |-> r.chunk, ret |-> r.ret, out |-> loser,
                  split |-> r.split, moved |-> r.moved]

\* Chunk::save: the point table written (gridBlock, then each present bucket)
RECURSIVE OverflowPoints(_, _)
OverflowPoints(ov, d) ==
    IF d = DirEnd THEN <<>>
    ELSE (IF ov[d].present
          THEN [j \in 1 .. Len(ov[d].list) |-> ov[d].list[j].pt]
          ELSE <<>>) \o OverflowPoints(ov, d + 1)

ChunkSave(c) ==
    [j \in 1 .. Len(c.grid) |-> c.grid[j].pt] \o OverflowPoints(c.ov, 0)

\* Chunk::save: the count returned, gridBlock.size() plus the size of the
\* block of each present bucket
RECURSIVE OverflowSizes(_, _)
OverflowSizes(ov, d) ==
    IF d = DirEnd THEN 0
    ELSE (IF ov[d].present THEN Len(ov[d].list) ELSE 0) + OverflowSizes(ov, d + 1)

\* a save that counts the grid only
ChunkNpOfGrid(c) == Len(c.grid)

ChunkNp(c) == Len(c.grid) + OverflowSizes(c.ov, 0)

\* Chunk::load: the points of the file, in file order, each with its key
\* initialised at the depth of the chunk, go through cache.insert at this
\* chunk.  [chunk, left]: left are the points that cache.insert takes on to
\* a child, because insert returned false or because a bucket was split
RECURSIVE LoadChunk(_, _, _, _)
LoadChunk(c, ck, file, conf) ==
    IF file = <<>> THEN [chunk |-> c, left |-> <<>>]
    ELSE LET r    == ChunkInsert(c, ck, Head(file), KeyInit(Head(file).p, ck.lv), conf)
             gone == (IF r.ret THEN <<>> ELSE <<r.out>>)
                        \o [j \in 1 .. Len(r.moved) |-> r.moved[j].pt]
             rest == LoadChunk(r.chunk, ck, Tail(file), conf)
         IN  [chunk |-> rest.chunk, left |-> gone \o rest.left]

(***************************************************************************)
(* ReffedChunk: a slice entry [refs, chunk, gen, lock].  chunk is NoChunk  *)
(* after reset(); gen numbers the Chunk instances the entry has held, so   *)
(* that a pointer to an earlier instance can be told from the current one. *)
(***************************************************************************)
NoChunk == [none |-> TRUE]

\* an add that does not count
RefAddLost(r) == r

\* ReffedChunk::add
RefAdd(r) == [r EXCEPT !.refs = @ + 1]

\* ReffedChunk::del throws "Negative" when the count is 0
RefDelThrows(r) == r.refs = 0

\* a del that takes two
RefDelTwice(r) == [r EXCEPT !.refs = @ - 2]

\* ReffedChunk::del
RefDel(r) == [r EXCEPT !.refs = @ - 1]

\* ReffedChunk::exists
RefExists(r) == r.chunk # NoChunk

\* a reset that keeps the Chunk
RefResetKept(r) == r

\* ReffedChunk::reset
RefReset(r) == [r EXCEPT !.chunk = NoChunk]

\* ReffedChunk::assign
RefAssign(r, ck, h) == [r EXCEPT !.chunk = NewChunk(ck, h), !.gen = @ + 1]


(***************************************************************************)
(* Finite maps with a growing domain (slices, files).                      *)
(***************************************************************************)
MapSet(f, k, v) == [x \in (DOMAIN f) \cup {k} |-> IF x = k THEN v ELSE f[x]]

MapDel(f, k) == [x \in (DOMAIN f) \ {k} |-> f[x]]

\* the order of std::map<Xyz, ...> within a depth, depths ascending
KeyLess(a, b) ==
    \E i \in 1 .. 4 : a[i] < b[i] /\ \A j \in 1 .. (i - 1) : a[j] = b[j]

MinKey(S) == CHOOSE a \in S : \A b \in S \ {a} : KeyLess(a, b)

(***************************************************************************)
(* Clipper: fast, slow and aged hold pointers to Chunks.  A pointer is     *)
(* [k |-> dxyz, g |-> gen]: the entry it was taken from and the instance.  *)
(* fast has at most one pointer per depth.                                 *)
(***************************************************************************)
NewClipper == [fast |-> {}, slow |-> {}, aged |-> {}]

Find(ptrs, k) == {q \in ptrs : q.k = k}

\* Clipper::get: the pointers found for chunk key k (empty: nullptr)
ClipperGet(cl, k) ==
    IF Find(cl.fast, k) # {} THEN Find(cl.fast, k)
    ELSE IF Find(cl.slow, k) # {} THEN Find(cl.slow, k)
    ELSE Find(cl.aged, k)

\* the fast slot of depth k[1] replaced by pointer q
SetFast(fast, q) == {x \in fast : x.k[1] # q.k[1]} \cup {q}

\* a get that moves a pointer found in aged to the fast slot only
ClipperTouchFastOnly(cl, k) ==
    IF Find(cl.fast, k) # {} THEN cl
    ELSE IF Find(cl.slow, k) # {}
         THEN [cl EXCEPT !.fast = SetFast(@, CHOOSE q \in Find(cl.slow, k) : TRUE)]
    ELSE IF Find(cl.aged, k) # {}
         THEN LET q == CHOOSE x \in Find(cl.aged, k) : TRUE
              IN  [cl EXCEPT !.aged = @ \ {q}, !.fast = SetFast(@, q)]
    ELSE cl

\* Clipper::get, the promotion it makes: to fast, and from aged back to slow
ClipperTouch(cl, k) ==
    IF Find(cl.fast, k) # {} THEN cl
    ELSE IF Find(cl.slow, k) # {}
         THEN [cl EXCEPT !.fast = SetFast(@, CHOOSE q \in Find(cl.slow, k) : TRUE)]
    ELSE IF Find(cl.aged, k) # {}
         THEN LET q == CHOOSE x \in Find(cl.aged, k) : TRUE
              IN  [cl EXCEPT !.slow = @ \cup {q}, !.fast = SetFast(@, q)]
    ELSE cl

\* Clipper::set
ClipperSet(cl, q) == [cl EXCEPT !.slow = @ \cup {q}, !.fast = SetFast(@, q)]

\* the chunk keys Clipper::clip releases: in aged, not in slow
Stale(cl) == {q.k : q \in cl.aged} \ {q.k : q \in cl.slow}

\* a rotation that leaves the fast slots as they are
ClipperRotateKeepingFast(cl) == [fast |-> cl.fast, slow |-> {}, aged |-> cl.slow]

\* Clipper::clip, the rotation: aged <- slow, slow <- {}, fast <- {}
ClipperRotate(cl) == [fast |-> {}, slow |-> {}, aged |-> cl.slow]

\* every chunk key a Clipper holds a reference for
Held(cl) == {q.k : q \in cl.slow \cup cl.aged}

(***************************************************************************)
(* ChunkCache: slices maps dxyz to a ReffedChunk, pool is the set of       *)
(* queued background tasks [k |-> dxyz, stage |-> "serialize" | "erase"].  *)
(***************************************************************************)
NewRef == [refs |-> 0, chunk |-> NoChunk, gen |-> 0, lock |-> 0]

SerializeTask(k) == [k |-> k, stage |-> "serialize"]

EraseTask(k) == [k |-> k, stage |-> "erase"]

\* ChunkCache::clip(depth, stale) over all depths: each stale key loses one
\* reference, in map order; a count that reaches zero on an entry that holds
\* a Chunk queues its serialization.  Stops at the first del() that throws.
\* [slices, pool, threw]
RECURSIVE Release(_, _, _)
Release(sl, pl, keys) ==
    IF keys = {} THEN [slices |-> sl, pool |-> pl, threw |-> FALSE]
    ELSE LET k == MinKey(keys)
         IN  IF k \notin DOMAIN sl \/ RefDelThrows(sl[k])
             THEN [slices |-> sl, pool |-> pl, threw |-> TRUE]
             ELSE LET r == RefDel(sl[k])
                  IN  Release(MapSet(sl, k, r),
                              IF r.refs = 0 /\ RefExists(r)
                              THEN pl \cup {SerializeTask(k)} ELSE pl,
                              keys \ {k})

\* the entries that hold a Chunk nobody references
Unreferenced(sl) == {k \in DOMAIN sl : sl[k].refs = 0 /\ RefExists(sl[k])}

\* ChunkCache::maybePurge(max): queue serializations until at most max
\* unreferenced chunks are left unqueued; the victims are any
Purges(sl, max) ==
    LET u == Unreferenced(sl)
    IN  IF Cardinality(u) <= max THEN {{}}
        ELSE {v \in SUBSET u : Cardinality(v) = Cardinality(u) - max}

\* ChunkCache::maybeSerialize on an entry with no reference and a Chunk:
\* save, record the count, reset.  [ref, file, np]
Serialized(r) ==
    [ref |-> RefReset(r), file |-> ChunkSave(r.chunk), np |-> ChunkNp(r.chunk)]

\* a maybeSerialize that finds nothing to write
CanSerializeNever(sl, k) == k \in DOMAIN sl /\ sl[k].refs < 0

\* may ChunkCache::maybeSerialize write entry k?
CanSerialize(sl, k) == k \in DOMAIN sl /\ sl[k].refs = 0 /\ RefExists(sl[k])

\* may ChunkCache::maybeErase erase entry k?
CanErase(sl, k) == k \in DOMAIN sl /\ sl[k].refs = 0 /\ ~RefExists(sl[k])

(***************************************************************************)
(* The state of one build.                                                 *)
(***************************************************************************)
VARIABLES
    conf,       \* the configuration: node sizes, subset, limit, threads
    manifest,   \* Builder::manifest: origin -> BuildItem
    hierarchy,  \* Builder::hierarchy, shared with the cache
    slices,     \* ChunkCache::m_slices: dxyz -> ReffedChunk
    owned,      \* ChunkCache::m_owned
    pool,       \* ChunkCache::m_pool: the queued background tasks
    files,      \* the chunk files written under ept-data: dxyz -> points
    clippers,   \* the Clipper of each insert task
    wk,         \* the insert task of each origin: its position and locals
    counter,    \* the shared counter of Builder::run
    ri,         \* the runInserts task: its position and loop variables
    mon,        \* the monitor task: its position
    done,       \* the flag of Builder::run
    delivered,  \* per origin, the points its reader has handed to the table
    budget,     \* how many more points the readers deliver
    stats,      \* per origin, the stats of source.info.schema: <<>> or <<count>>
    schema,     \* the stats of metadata.schema: <<>> or <<count>>
    output,     \* per call of save, what it has put on the output endpoint
    sv,         \* Builder::save: its position and the number of calls so far
    mg          \* builder::merge: its inputs, its position and its locals

vars == <<conf, manifest, hierarchy, slices, owned, pool, files, clippers, wk,
          counter, ri, mon, done, delivered, budget, stats, schema, output, sv,
          mg>>

saveVars == <<schema, output, sv>>

cacheVars == <<hierarchy, slices, owned, pool, files>>
runVars == <<ri, mon, done>>

Origins == 1 .. NumSources

\* the candidate coordinates of input points: two that share a cell of the
\* root grid (one nearer the cell's midpoint, one nearer the chunk's), one of
\* the opposite octant, one outside the conforming bounds
Coords == { <<2, 1, 1>>, <<3, 3, 3>>, <<5, 5, 5>>, <<7, 7, 7>> }

\* metadata.boundsConforming.contains(point): the conforming bounds are the
\* cube without its last layer
InConforming(p) == \A i \in Axes : p[i] >= 0 /\ p[i] < Size - 1

\* boundsSubset->contains(point) for subset 1 of 4: the south-west quadrant
InSubset(p) == p[1] < Size \div 2 /\ p[2] < Size \div 2

\* the filter of Builder::insert
Accepted(c, p) == InConforming(p) /\ (c.subset => InSubset(p))

\* the root chunk key: ChunkKey ck(metadata.bounds, ...); ck.reset()
RootChunk == RootKey

InsFrame(pt, key, ck) == [t |-> "ins", pt |-> pt, key |-> key, ck |-> ck]

UnlockFrame(ck) == [t |-> "unlock", pt |-> <<>>, key |-> ck, ck |-> ck]

NewTask ==
    [ pc       |-> "idle",
      table    |-> <<>>,     \* the points of the batch not yet visited
      eos      |-> FALSE,    \* the reader has no more points
      pointId  |-> 0,
      inserted |-> 0,        \* points since the last clip
      inserts  |-> 0,        \* counts.inserts of the batch under way
      stack    |-> <<>> ]    \* the cache.insert calls under way, innermost first

Running(w) ==
    {o \in Origins : w[o].pc \in {"read", "insert", "after", "hung", "ub"}}

Queued(w) == {o \in Origins : w[o].pc = "queued"}

(***************************************************************************)
(* Builder::tryInsert, the way out of insert: the Clipper is destroyed     *)
(* (every reference it holds is released), a caught error is appended to   *)
(* the errors of the item, and the item is marked inserted.                *)
(***************************************************************************)
\* a tryInsert that leaves a failed source to be tried again
SettleUnlessFailed(item, errs) ==
    [item EXCEPT !.errors = @ \o errs, !.inserted = (errs = <<>>)]

\* a tryInsert that swallows the error
SettleSilent(item, errs) == [item EXCEPT !.inserted = TRUE]

\* the catch clauses and the assignment that follows them
Settle(item, errs) == [item EXCEPT !.errors = @ \o errs, !.inserted = TRUE]

TryInsertEnd(o, sl, pl, cl, errs) ==
    LET rel == Release(sl, pl, Held(cl))
    IN  /\ slices' = rel.slices
        /\ pool' = rel.pool
        /\ clippers' = [clippers EXCEPT ![o] = NewClipper]
        /\ manifest' = [manifest EXCEPT ![o] = Settle(@, errs)]
        /\ wk' = [wk EXCEPT ![o].pc = "done", ![o].stack = <<>>, ![o].table = <<>>]


(***************************************************************************)
(* Builder::runInserts, the submission loop: one iteration per step.       *)
(***************************************************************************)
\* a test that forgets the point count
EligibleEmpty(item) == ~item.inserted /\ item.overlaps

\* an eligibility that forgets the inserted flag
EligibleAgain(item) == item.points > 0 /\ item.overlaps

\* !item.inserted && info.points && active.overlaps(info.bounds)
Eligible(item) == ~item.inserted /\ item.points > 0 /\ item.overlaps

\* a loop that goes one file over the limit
LoopGoesOver(origin, filesInserted, limit) ==
    origin <= NumSources /\ (limit = 0 \/ filesInserted <= limit)

\* the loop condition: origin < manifest.size() && (!limit || filesInserted < limit)
LoopGoes(origin, filesInserted, limit) ==
    origin <= NumSources /\ (limit = 0 \/ filesInserted < limit)

Submit ==
    /\ ri.pc = "loop"
    /\ IF LoopGoes(ri.origin, ri.filesInserted, conf.limit)
       THEN IF Eligible(manifest[ri.origin])
            THEN /\ wk' = [wk EXCEPT ![ri.origin].pc = "queued"]
                 /\ ri' = [ri EXCEPT !.origin = @ + 1, !.filesInserted = @ + 1]
            ELSE /\ ri' = [ri EXCEPT !.origin = @ + 1]
                 /\ wk' = wk
       ELSE /\ ri' = [ri EXCEPT !.pc = "join"]
            /\ wk' = wk
    /\ UNCHANGED <<saveVars, stats, mg, conf, manifest, cacheVars, clippers, counter, mon, done,
                   delivered, budget>>

\* a loop in which only the points that pass the filter take a point id
RECURSIVE AdvanceInside(_, _, _)
AdvanceInside(t, o, c) ==
    IF t.table = <<>>
    THEN [task |-> [t EXCEPT !.pc = IF t.eos THEN "after" ELSE "read",
                             !.inserts = 0],
          add  |-> t.inserts]
    ELSE LET p  == Head(t.table)
             pt == [p |-> p, o |-> o, id |-> t.pointId]
         IN  IF Accepted(c, p)
             THEN [task |-> [t EXCEPT !.table = Tail(@), !.pointId = @ + 1,
                                      !.pc = "insert",
                                      !.stack = <<InsFrame(pt, KeyInit(p, 0),
                                                           RootChunk)>>],
                   add  |-> 0]
             ELSE AdvanceInside([t EXCEPT !.table = Tail(@)], o, c)

(***************************************************************************)
(* The loop of the process callback of Builder::insert over the table:     *)
(* each point gets its origin and point id; a point outside the bounds is  *)
(* passed over, one inside enters cache.insert at the root; at the end of  *)
(* the table the inserts of the batch are added to the counter.            *)
(* [task, add]: the task at its next cache.insert or after the batch, and  *)
(* what the counter gains.                                                 *)
(***************************************************************************)
RECURSIVE Advance(_, _, _)
Advance(t, o, c) ==
    IF t.table = <<>>
    THEN [task |-> [t EXCEPT !.pc = IF t.eos THEN "after" ELSE "read",
                             !.inserts = 0],
          add  |-> t.inserts]
    ELSE LET p  == Head(t.table)
             pt == [p |-> p, o |-> o, id |-> t.pointId]
             t1 == [t EXCEPT !.table = Tail(@), !.pointId = @ + 1]
         IN  IF Accepted(c, p)
             THEN [task |-> [t1 EXCEPT !.pc = "insert",
                                       !.stack = <<InsFrame(pt, KeyInit(p, 0),
                                                            RootChunk)>>],
                   add  |-> 0]
             ELSE Advance(t1, o, c)

(***************************************************************************)
(* Builder::tryInsert / Builder::insert, one task per submitted origin.    *)
(***************************************************************************)
\* A thread of the work pool takes the next queued task.  insert starts:
\* ensureGetLocalHandle throws for an unreadable path and getStage for a
\* pipeline without stages, before any point is read.
Start(o) ==
    /\ wk[o].pc = "queued"
    /\ \A q \in Queued(wk) : o <= q
    /\ Cardinality(Running(wk)) < Min2(conf.work, NumSources)
    /\ IF manifest[o].kind = "unreadable"
       THEN TryInsertEnd(o, slices, pool, clippers[o], <<"Could not read file">>)
       ELSE IF manifest[o].kind = "nostages"
       THEN TryInsertEnd(o, slices, pool, clippers[o],
                         <<"Invalid pipeline - no stages">>)
       ELSE /\ wk' = [wk EXCEPT ![o].pc = "read"]
            /\ UNCHANGED <<manifest, slices, pool, clippers>>
    /\ UNCHANGED <<saveVars, stats, mg, conf, hierarchy, owned, files, counter, runVars, delivered,
                   budget>>

\* The reader fills the table and the process callback begins: a full table
\* while the stream goes on, a shorter one at its end, or (a corrupt source)
\* an error instead.  The callback adds the batch to `inserted` and clips
\* when that exceeds sleepCount.
Read(o) ==
    /\ wk[o].pc = "read"
    /\ \E n \in 0 .. Min2(BatchSize, budget) :
       \E batch \in [1 .. n -> conf.coords] :
       \E fail \in IF manifest[o].kind = "corrupt" THEN BOOLEAN ELSE {FALSE} :
          IF fail
          THEN /\ TryInsertEnd(o, slices, pool, clippers[o], <<"Read failed">>)
               /\ UNCHANGED <<delivered, budget, counter>>
          ELSE
          LET sofar == wk[o].inserted + n
              clip  == sofar > SleepCount
              rel   == Release(slices, pool, Stale(clippers[o]))
          IN  /\ delivered' = [delivered EXCEPT ![o] = @ \o batch]
              /\ budget' = budget - n
              /\ IF n = 0
                 THEN /\ wk' = [wk EXCEPT ![o].pc = "after", ![o].eos = TRUE]
                      /\ UNCHANGED <<manifest, slices, pool, clippers, counter>>
                 ELSE IF clip /\ rel.threw
                 THEN /\ TryInsertEnd(o, rel.slices, rel.pool, clippers[o],
                                      <<"Negative">>)
                      /\ counter' = counter
                 ELSE /\ LET adv == Advance(
                                     [wk[o] EXCEPT
                                        !.table = batch,
                                        !.eos = n < BatchSize,
                                        !.inserted = IF clip THEN 0 ELSE sofar,
                                        !.inserts = 0], o, conf)
                         IN  /\ wk' = [wk EXCEPT ![o] = adv.task]
                             /\ counter' = counter + adv.add
                      /\ manifest' = manifest
                      /\ IF clip
                         THEN /\ slices' = rel.slices
                              /\ clippers' = [clippers EXCEPT
                                                ![o] = ClipperRotate(@)]
                              /\ \E v \in Purges(rel.slices, CacheSize) :
                                    pool' = rel.pool \cup
                                            {SerializeTask(k) : k \in v}
                         ELSE UNCHANGED <<slices, pool, clippers>>
    /\ UNCHANGED <<saveVars, stats, mg, conf, hierarchy, owned, files, runVars>>

\* an addRef that does not record the key in m_owned
AddRefUnrecorded(sl, own, cl, ck, h, o) ==
    LET k  == Dxyz(ck)
        r0 == IF k \in DOMAIN sl THEN sl[k] ELSE NewRef
        r1 == IF RefExists(r0) THEN r0 ELSE RefAssign(r0, ck, h)
        r2 == RefAdd(r1)
    IN  IF ~RefExists(r0) /\ k \in own /\ HierGet(h, k) > 0
        THEN [slices |-> MapSet(sl, k, [r1 EXCEPT !.lock = o]), owned |-> own,
              cl |-> cl, hung |-> TRUE]
        ELSE [slices |-> MapSet(sl, k, r2), owned |-> own,
              cl |-> ClipperSet(cl, [k |-> k, g |-> r2.gen]), hung |-> FALSE]

\* an addRef that constructs a Chunk for every caller
AddRefAnew(sl, own, cl, ck, h, o) ==
    LET k  == Dxyz(ck)
        r0 == IF k \in DOMAIN sl THEN sl[k] ELSE NewRef
        r1 == RefAssign(r0, ck, h)
        r2 == RefAdd(r1)
    IN  IF ~RefExists(r0) /\ k \in own /\ HierGet(h, k) > 0
        THEN [slices |-> MapSet(sl, k, [r1 EXCEPT !.lock = o]), owned |-> own,
              cl |-> cl, hung |-> TRUE]
        ELSE [slices |-> MapSet(sl, k, r2), owned |-> own \cup {k},
              cl |-> ClipperSet(cl, [k |-> k, g |-> r2.gen]), hung |-> FALSE]

(***************************************************************************)
(* ChunkCache::addRef for a Clipper that holds no pointer for ck.          *)
(* [slices, owned, cl, hung].  An entry without a Chunk gets a fresh one;  *)
(* a chunk owned before is loaded, and Chunk::load hands every stored      *)
(* point to cache.insert for this very key while the entry's lock is held  *)
(* and the Clipper has no pointer yet: that insert comes back to addRef    *)
(* and waits for the lock for ever (hung).  Otherwise the count is raised  *)
(* and the pointer recorded in the Clipper.                                *)
(***************************************************************************)
AddRef(sl, own, cl, ck, h, o) ==
    LET k  == Dxyz(ck)
        r0 == IF k \in DOMAIN sl THEN sl[k] ELSE NewRef
        r1 == IF RefExists(r0) THEN r0 ELSE RefAssign(r0, ck, h)
        loads == ~RefExists(r0) /\ k \in own /\ HierGet(h, k) > 0
        r2 == RefAdd(r1)
    IN  IF loads
        THEN [slices |-> MapSet(sl, k, [r1 EXCEPT !.lock = o]), owned |-> own,
              cl |-> cl, hung |-> TRUE]
        ELSE [slices |-> MapSet(sl, k, r2), owned |-> own \cup {k},
              cl |-> ClipperSet(cl, [k |-> k, g |-> r2.gen]), hung |-> FALSE]

\* is pointer q the Chunk its entry holds now?
Valid(sl, q) == q.k \in DOMAIN sl /\ RefExists(sl[q.k]) /\ sl[q.k].gen = q.g

\* returning from doOverflow releases the overflow lock of the chunk
RECURSIVE Unwind(_, _)
Unwind(sl, st) ==
    IF st # <<>> /\ Head(st).t = "unlock"
    THEN Unwind([sl EXCEPT ![Dxyz(Head(st).ck)].chunk.ovLock = 0], Tail(st))
    ELSE [slices |-> sl, stack |-> st]

\* the calls of doOverflow: one cache.insert per moved entry at the child,
\* in list order, then the return
SplitFrames(moved, child, ck) ==
    [j \in 1 .. Len(moved) |-> InsFrame(moved[j].pt, moved[j].key, child)]
        \o <<UnlockFrame(ck)>>

\* is the depth of chunk key ck past the end of the arrays the cache and the
\* Clipper keep per depth (std::array<..., maxDepth>)?
OutOfRange(ck) == ck.lv >= MaxDepth

(***************************************************************************)
(* One iteration of the loop of ChunkCache::insert for the innermost call: *)
(* find the chunk (Clipper::get, else addRef), Chunk::insert, and on false *)
(* step key and chunk key one level along the point.                       *)
(***************************************************************************)
Insert(o) ==
    /\ wk[o].pc = "insert"
    /\ IF OutOfRange(Head(wk[o].stack).ck)
       THEN \* the index is past the end of the per-depth arrays
            /\ wk' = [wk EXCEPT ![o].pc = "ub"]
            /\ UNCHANGED <<slices, owned, clippers, counter>>
       ELSE
       LET f    == Head(wk[o].stack)
           k    == Dxyz(f.ck)
           got  == ClipperGet(clippers[o], k)
           a    == IF got = {}
                   THEN AddRef(slices, owned, clippers[o], f.ck, hierarchy, o)
                   ELSE [slices |-> slices, owned |-> owned,
                         cl |-> ClipperTouch(clippers[o], k), hung |-> FALSE]
       IN  \* addRef waits for the lock of the entry
           /\ (got = {} /\ k \in DOMAIN slices) => slices[k].lock = 0
           /\ owned' = a.owned
           /\ IF a.hung
              THEN /\ slices' = a.slices
                   /\ clippers' = clippers
                   /\ wk' = [wk EXCEPT ![o].pc = "hung"]
                   /\ counter' = counter
              ELSE IF got # {} /\ \E q \in got : ~Valid(slices, q)
              THEN \* the use of a dangling Chunk pointer
                   /\ wk' = [wk EXCEPT ![o].pc = "ub"]
                   /\ UNCHANGED <<slices, clippers, counter>>
              ELSE
              LET c  == a.slices[k].chunk
                  r  == ChunkInsert(c, f.ck, f.pt, f.key, conf)
                  c1 == IF r.split >= 0 THEN [r.chunk EXCEPT !.ovLock = o]
                        ELSE r.chunk
                  st == IF r.ret
                        THEN IF r.split >= 0
                             THEN SplitFrames(r.moved, ChildAt(f.ck, r.split), f.ck)
                                      \o Tail(wk[o].stack)
                             ELSE Tail(wk[o].stack)
                        ELSE <<InsFrame(r.out, KeyStep(f.key, r.out.p),
                                        KeyStep(f.ck, r.out.p))>>
                                 \o Tail(wk[o].stack)
                  u  == Unwind([a.slices EXCEPT ![k].chunk = c1], st)
              IN  \* insertOverflow waits for the overflow lock of the chunk
                  /\ (SlotOf(c.grid, f.key.pos) # 0 /\ f.ck.lv >= conf.sharedDepth)
                        => c.ovLock = 0
                  /\ slices' = u.slices
                  /\ clippers' = [clippers EXCEPT ![o] = a.cl]
                  /\ IF u.stack = <<>>
                     THEN \* cache.insert has returned: ++counts.inserts
                          LET adv == Advance([wk[o] EXCEPT !.stack = <<>>,
                                                           !.inserts = @ + 1],
                                             o, conf)
                          IN  /\ wk' = [wk EXCEPT ![o] = adv.task]
                              /\ counter' = counter + adv.add
                     ELSE /\ wk' = [wk EXCEPT ![o].stack = u.stack]
                          /\ counter' = counter
    /\ UNCHANGED <<saveVars, stats, mg, conf, manifest, hierarchy, pool, files, runVars, delivered,
                   budget>>

\* what the stats filter, appended after the reader, has seen of the source
Harvest(points) == <<Len(points)>>

\* After the last batch: findStage(last, "filters.stats") throws for a
\* pipeline that is not linear; else the stats of the filter are stored in
\* the schema of the source; then insert returns.
After(o) ==
    /\ wk[o].pc = "after"
    /\ TryInsertEnd(o, slices, pool, clippers[o],
                    IF manifest[o].kind = "nonlinear"
                    THEN <<"Invalid pipeline - must be linear">> ELSE <<>>)
    /\ stats' = IF manifest[o].kind = "nonlinear" THEN stats
                ELSE [stats EXCEPT ![o] = Harvest(delivered[o])]
    /\ UNCHANGED <<saveVars, mg, conf, hierarchy, owned, files, counter, runVars, delivered,
                   budget>>

(***************************************************************************)
(* The background pool of the cache.                                       *)
(***************************************************************************)
\* ChunkCache::maybeSerialize(dxyz), under the lock of the entry
Serialize(t) ==
    /\ t \in pool
    /\ t.stage = "serialize"
    /\ t.k \in DOMAIN slices => slices[t.k].lock = 0
    /\ IF CanSerialize(slices, t.k)
       THEN LET s == Serialized(slices[t.k])
            IN  /\ slices' = [slices EXCEPT ![t.k] = s.ref]
                /\ files' = MapSet(files, t.k, s.file)
                /\ hierarchy' = HierSet(hierarchy, t.k, s.np)
                /\ pool' = (pool \ {t}) \cup {EraseTask(t.k)}
       ELSE /\ pool' = pool \ {t}
            /\ UNCHANGED <<slices, files, hierarchy>>
    /\ UNCHANGED <<saveVars, stats, mg, conf, manifest, owned, clippers, wk, counter, runVars,
                   delivered, budget>>

\* ChunkCache::maybeErase(dxyz)
Erase(t) ==
    /\ t \in pool
    /\ t.stage = "erase"
    /\ t.k \in DOMAIN slices => slices[t.k].lock = 0
    /\ pool' = pool \ {t}
    /\ slices' = IF CanErase(slices, t.k) THEN MapDel(slices, t.k) ELSE slices
    /\ UNCHANGED <<saveVars, stats, mg, conf, manifest, hierarchy, owned, files, clippers, wk, counter,
                   runVars, delivered, budget>>

(***************************************************************************)
(* Builder::runInserts after the loop, and Builder::run.                   *)
(***************************************************************************)
\* a join that does not wait for the tasks
JoinPoolEarly ==
    /\ ri.pc = "join"
    /\ ri' = [ri EXCEPT !.pc = "cachejoin"]
    /\ UNCHANGED <<saveVars, stats, mg, conf, manifest, cacheVars, clippers, wk,
                   counter, mon, done, delivered, budget>>

\* pool.join(): every submitted task has returned
JoinPool ==
    /\ ri.pc = "join"
    /\ \A o \in Origins : wk[o].pc \in {"idle", "done"}
    /\ ri' = [ri EXCEPT !.pc = "cachejoin"]
    /\ UNCHANGED <<saveVars, stats, mg, conf, manifest, cacheVars, clippers, wk, counter, mon, done,
                   delivered, budget>>

\* every unreferenced Chunk saved, counted and reset, in map order
RECURSIVE SerializeAll(_, _, _, _)
SerializeAll(sl, fl, h, keys) ==
    IF keys = {} THEN [slices |-> sl, files |-> fl, hierarchy |-> h]
    ELSE LET k == MinKey(keys)
             s == Serialized(sl[k])
         IN  SerializeAll(MapSet(sl, k, s.ref), MapSet(fl, k, s.file),
                          HierSet(h, k, s.np), keys \ {k})

\* ChunkCache::join(): the pool is drained, then what is left is serialized
CacheJoin ==
    /\ ri.pc = "cachejoin"
    /\ pool = {}
    /\ LET j == SerializeAll(slices, files, hierarchy, Unreferenced(slices))
       IN  /\ slices' = j.slices
           /\ files' = j.files
           /\ hierarchy' = j.hierarchy
    /\ ri' = [ri EXCEPT !.pc = "save"]
    /\ UNCHANGED <<saveVars, stats, mg, conf, manifest, owned, pool, clippers, wk, counter, mon, done,
                   delivered, budget>>

(***************************************************************************)
(* Builder::save: saveHierarchy, saveSources, saveMetadata.  Each put on   *)
(* the output is a step, so that what is on the output between two puts    *)
(* is a state.  The first call is the one of runInserts; once run has      *)
(* returned, its caller may call save again on the same Builder.           *)
(***************************************************************************)
\* getPostfix(metadata): the subset id of a subset build
Postfix(c) == IF c.subset THEN "-1" ELSE ""

IsSettled(item) == item.inserted \/ item.points = 0

HasStats(st) == st # <<>>

\* hierarchy::determineStep: no step while one file can hold every node
DetermineStep(h) ==
    IF Cardinality(DOMAIN h) <= MaxHierarchyNodesPerFile THEN 0 ELSE StartDepth + 1

\* saveHierarchy: the step, chosen for a whole and settled build only, and
\* the nodes that hierarchy::save writes under it
HierarchyJson(c, m, h) ==
    [ name  |-> <<"ept-hierarchy", Postfix(c)>>,
      step  |-> IF ~c.subset /\ \A o \in Origins : IsSettled(m[o])
                THEN DetermineStep(h) ELSE 0,
      nodes |-> h ]

\* assignMetadataPaths: every source gets the name of its own file
AssignMetadataPaths(m) == [o \in Origins |-> [m[o] EXCEPT !.metadataPath = <<o>>]]

\* json(item): what is written of a source in detail
ItemJson(item, st) ==
    [ inserted |-> item.inserted, points |-> item.points,
      overlaps |-> item.overlaps, errors |-> item.errors,
      metadataPath |-> item.metadataPath, stats |-> st ]

\* toOverview(manifest): what is written of a source in the overview
Overview(item) ==
    [ inserted |-> item.inserted, points |-> item.points,
      overlaps |-> item.overlaps, metadataPath |-> item.metadataPath ]

\* saveSources, on the manifest with its paths assigned: a subset writes the
\* whole manifest as one file; a whole build writes one file per source
\* (saveEach) and the overview
SourcesJson(c, m, st) ==
    IF c.subset
    THEN [ name   |-> <<"manifest", Postfix(c)>>,
           whole  |-> [o \in Origins |-> ItemJson(m[o], st[o])],
           each   |-> <<>> ]
    ELSE [ name   |-> <<"manifest", Postfix(c)>>,
           whole  |-> [o \in Origins |-> Overview(m[o])],
           each   |-> [o \in Origins |->
                         [name |-> m[o].metadataPath, data |-> ItemJson(m[o], st[o])]] ]

ClearStats(s) == <<>>

\* combine(schema, itemSchema, true): the counts add up
Combine(s, st) == IF s = <<>> THEN st ELSE <<s[1] + st[1]>>

RECURSIVE FoldStats(_, _, _)
FoldStats(s, st, o) ==
    IF o > NumSources THEN s ELSE FoldStats(Combine(s, st[o]), st, o + 1)

\* a fold on top of the stats that the schema already has
FoldedOnTop(c, s, st) ==
    IF ~c.subset /\ \A o \in Origins : HasStats(st[o])
    THEN FoldStats(s, st, 1)
    ELSE s

\* saveMetadata, its first part: for a whole build whose sources all have
\* stats, metadata.schema becomes the fold of them over the cleared schema
FoldedSchema(c, s, st) ==
    IF ~c.subset /\ \A o \in Origins : HasStats(st[o])
    THEN FoldStats(ClearStats(s), st, 1)
    ELSE s

\* getInsertedPoints(manifest)
InsertedPoints(m) ==
    SumSeq([o \in Origins |-> IF m[o].inserted THEN m[o].points ELSE 0])

\* ept.json: the metadata and the points of the inserted sources
EptJson(c, s, m) ==
    [ name |-> <<"ept", Postfix(c), ".json">>, schema |-> s,
      points |-> InsertedPoints(m), subset |-> c.subset ]

\* ept-build.json: metadata.internal
BuildJson(c) ==
    [ name |-> <<"ept-build", Postfix(c), ".json">>,
      minNodeSize |-> c.minNodeSize, maxNodeSize |-> c.maxNodeSize,
      sharedDepth |-> c.sharedDepth, subset |-> c.subset, hierarchyStep |-> 0 ]

\* what one call of save has put: per file <<>> or <<its content>>, and the
\* order of the puts
NoOutput ==
    [ hierarchy |-> <<>>, sources |-> <<>>, ept |-> <<>>, build |-> <<>>,
      order |-> <<>> ]

\* ensurePut succeeds, or throws when the endpoint fails
PutOutcomes == IF conf.putFails THEN BOOLEAN ELSE {TRUE}

\* one ensurePut of call n of save, and where save goes on; a put that
\* throws ends save, and with it the runInserts that called it; the last
\* put returns to the caller
Put(out, n, file, data, next) ==
    \E ok \in PutOutcomes :
        /\ output' = IF ok
                     THEN [out EXCEPT ![n][file] = <<data>>,
                                      ![n].order = Append(@, file)]
                     ELSE out
        /\ sv' = [pc |-> IF ok THEN next ELSE "failed", n |-> n]
        /\ ri' = IF ri.pc = "save" /\ (~ok \/ next = "idle")
                 THEN [ri EXCEPT !.pc = IF ok THEN "saved" ELSE "failed"]
                 ELSE ri

\* has Builder::run returned (pool.join() of its two tasks)?
RunReturned == ri.pc = "returned" /\ mon = "returned"

\* save is called: by runInserts after cache.join(), or again after run, or
\* by builder::merge after its cache.join()
SaveCalled ==
    \/ ri.pc = "save" /\ sv.n = 0
    \/ RunReturned /\ sv.n \in 1 .. MaxSaves - 1
    \/ mg.pc = "save" /\ sv.n = 0

SaveHierarchy ==
    /\ sv.pc = "idle"
    /\ SaveCalled
    /\ Put(Append(output, NoOutput), sv.n + 1, "hierarchy",
           HierarchyJson(conf, manifest, hierarchy), "sources")
    /\ UNCHANGED <<conf, manifest, cacheVars, clippers, wk, counter, mon, done,
                   delivered, budget, stats, schema, mg>>

SaveSources ==
    /\ sv.pc = "sources"
    /\ manifest' = IF conf.subset THEN manifest ELSE AssignMetadataPaths(manifest)
    /\ Put(output, sv.n, "sources", SourcesJson(conf, manifest', stats), "metadata")
    /\ UNCHANGED <<conf, cacheVars, clippers, wk, counter, mon, done, delivered,
                   budget, stats, schema, mg>>

\* the two puts of saveMetadata: ept.json, then ept-build.json
SaveMetadata ==
    /\ sv.pc \in {"metadata", "build"}
    /\ IF sv.pc = "metadata"
       THEN /\ schema' = FoldedSchema(conf, schema, stats)
            /\ Put(output, sv.n, "ept", EptJson(conf, schema', manifest), "build")
       ELSE /\ schema' = schema
            /\ Put(output, sv.n, "build", BuildJson(conf), "idle")
    /\ UNCHANGED <<conf, manifest, cacheVars, clippers, wk, counter, mon, done,
                   delivered, budget, stats, mg>>

\* done = true, the last statement of the inserter task
SetDone ==
    /\ ri.pc = "saved"
    /\ done' = TRUE
    /\ ri' = [ri EXCEPT !.pc = "returned"]
    /\ UNCHANGED <<saveVars, stats, mg, conf, manifest, cacheVars, clippers, wk,
                   counter, mon, delivered, budget>>

\* Builder::monitor: returns at once without an interval, else when it sees done
Monitor ==
    /\ mon = "run"
    /\ conf.interval = 0 \/ done
    /\ mon' = "returned"
    /\ UNCHANGED <<saveVars, stats, mg, conf, manifest, cacheVars, clippers, wk, counter, ri, done,
                   delivered, budget>>

(***************************************************************************)
(* builder::merge.  The output holds, or not, a completed dataset          *)
(* (ept.json) and the subset builds 1 .. NumSources (ept-<id>.json); each  *)
(* subset has a root chunk of one or two points and one or two nodes of    *)
(* its own at the shared depth.  A merge task is the insert task of its    *)
(* subset id: the points of the root go through cache.insert like those of *)
(* a source.                                                               *)
(***************************************************************************)
\* the points a subset build has stored in its root, a node below the shared
\* depth: each in a cell of the subset's own part of the bounds
SubsetPoints(id) ==
    LET lo == Size \div 4
        hi == Size - lo - 1
        x  == IF (id - 1) % 2 = 0 THEN lo ELSE hi
        y  == IF (id - 1) \div 2 = 0 THEN lo ELSE hi
    IN  << <<x, y, lo>>, <<x, y, hi>> >>

\* subsets that both hold the node of the first at the shared depth
SubsetNodeShared(id) == <<1, 0, 0, 0>>

\* the node of subset id at the shared depth, in its own part of the bounds
SubsetNode(id) == <<1, (id - 1) % 2, (id - 1) \div 2, 0>>

\* the node of subset id next to it along z
SubsetNodeAbove(id) == <<1, (id - 1) % 2, (id - 1) \div 2, 1>>

\* what a subset build may have left on the output: the points of its root
\* and its hierarchy (a point that lost its cell in the root went to the
\* child of its octant)
SubsetOutputs(id) ==
    {[root |-> SubSeq(SubsetPoints(id), 1, 1),
      hier |-> HierSet(HierSet(EmptyMap, Dxyz(RootChunk), 1), SubsetNode(id), 1)],
     [root |-> SubsetPoints(id),
      hier |-> HierSet(HierSet(HierSet(EmptyMap, Dxyz(RootChunk), 2),
                               SubsetNode(id), 2), SubsetNodeAbove(id), 1)]}

\* the keys of a set in the order of the hierarchy map
RECURSIVE InOrder(_)
InOrder(S) ==
    IF S = {} THEN <<>> ELSE <<MinKey(S)>> \o InOrder(S \ {MinKey(S)})

\* the nodes mergeOne copies: non-zero count, at or beyond the shared depth
CopiedNodes(h, shared) ==
    InOrder({k \in DOMAIN h : h[k] # 0 /\ k[1] >= shared})

\* a start of merge that looks for the first subset only
MergeErrorForced(force, store) ==
    IF 1 \notin store.subsets THEN "Failed to find first subset" ELSE ""

\* the two tests at the start of merge: the message thrown, "" for none
MergeError(force, store) ==
    IF ~force /\ store.ept
    THEN "Completed dataset already exists here"
    ELSE IF 1 \notin store.subsets
    THEN "Failed to find first subset"
    ELSE ""

MergeCheck ==
    /\ mg.pc = "start"
    /\ mg' = IF MergeError(mg.force, mg.store) # ""
             THEN [mg EXCEPT !.pc = "threw", !.err = MergeError(mg.force, mg.store)]
             ELSE [mg EXCEPT !.pc = "load"]
    /\ UNCHANGED <<saveVars, stats, conf, manifest, cacheVars, clippers, wk,
                   counter, runVars, delivered, budget>>

\* builder::load of subset 1; the subset is cleared from the metadata of the
\* merged output, its manifest taken over
MergeLoadBase ==
    /\ mg.pc = "load"
    /\ mg' = [mg EXCEPT !.pc = "loop", !.loaded = @ \cup {1},
                        !.shared = conf.sharedDepth]
    /\ conf' = [conf EXCEPT !.subset = FALSE, !.sharedDepth = 0]
    /\ UNCHANGED <<saveVars, stats, manifest, cacheVars, clippers, wk, counter,
                   runVars, delivered, budget>>

\* the loop over the subset ids: a task for each subset found on the output
MergeSubmit ==
    /\ mg.pc = "loop"
    /\ IF mg.id <= NumSources
       THEN /\ mg' = [mg EXCEPT !.id = @ + 1]
            /\ wk' = IF mg.id \in mg.store.subsets
                     THEN [wk EXCEPT ![mg.id].pc = "queued"] ELSE wk
       ELSE /\ mg' = [mg EXCEPT !.pc = "join"]
            /\ wk' = wk
    /\ UNCHANGED <<saveVars, stats, conf, manifest, cacheVars, clippers, counter,
                   runVars, delivered, budget>>

\* a merge task starts: builder::load of its subset, then mergeOne comes to
\* the root, a node below the shared depth, and reads its points into
\* cache.insert one after the other
MergeStart(id) ==
    /\ mg.pc \in {"loop", "join"}
    /\ wk[id].pc = "queued"
    /\ mg' = [mg EXCEPT !.loaded = @ \cup {id},
                        !.todo[id] = CopiedNodes(mg.src[id].hier, mg.shared)]
    /\ wk' = [wk EXCEPT ![id] = Advance([NewTask EXCEPT !.table = mg.src[id].root,
                                                        !.eos = TRUE],
                                        id, conf).task]
    /\ UNCHANGED <<saveVars, stats, conf, manifest, cacheVars, clippers, counter,
                   runVars, delivered, budget>>

\* mergeOne comes to a node at or beyond the shared depth: the assert, then
\* the count is copied.  Where the destination has a count already the
\* assert aborts the process, or, compiled out, the count is overwritten.
MergeCopy(id) ==
    /\ mg.pc \in {"loop", "join"}
    /\ wk[id].pc = "after"
    /\ mg.todo[id] # <<>>
    /\ LET key   == Head(mg.todo[id])
           count == mg.src[id].hier[key]
       IN  \E ndebug \in BOOLEAN :
              IF HierGet(hierarchy, key) # 0 /\ ~ndebug
              THEN /\ mg' = [mg EXCEPT !.pc = "aborted"]
                   /\ wk' = [wk EXCEPT ![id].pc = "aborted"]
                   /\ hierarchy' = hierarchy
              ELSE /\ mg' = [mg EXCEPT !.todo[id] = Tail(@)]
                   /\ wk' = wk
                   /\ hierarchy' = HierSet(hierarchy, key, count)
    /\ UNCHANGED <<saveVars, stats, conf, manifest, slices, owned, pool, files,
                   clippers, counter, runVars, delivered, budget>>

\* mergeOne has visited every node and returns (its Clipper releases what it
\* holds); then the manifest of the subset is merged in under the mutex
MergeOne(id) ==
    /\ mg.pc \in {"loop", "join"}
    /\ wk[id].pc = "after"
    /\ mg.todo[id] = <<>>
    /\ hierarchy' = hierarchy
    /\ LET rel == Release(slices, pool, Held(clippers[id]))
       IN  /\ slices' = rel.slices
           /\ pool' = rel.pool
    /\ clippers' = [clippers EXCEPT ![id] = NewClipper]
    /\ wk' = [wk EXCEPT ![id].pc = "done"]
    /\ mg' = [mg EXCEPT !.merged = @ \cup {id}]
    /\ UNCHANGED <<saveVars, stats, conf, manifest, owned, files, counter,
                   runVars, delivered, budget>>

\* pool.join(), then cache.join()
MergeJoin ==
    /\ mg.pc = "join"
    /\ \A o \in Origins : wk[o].pc \in {"idle", "done"}
    /\ pool = {}
    /\ LET j == SerializeAll(slices, files, hierarchy, Unreferenced(slices))
       IN  /\ slices' = j.slices
           /\ files' = j.files
           /\ hierarchy' = j.hierarchy
    /\ mg' = [mg EXCEPT !.pc = "save"]
    /\ UNCHANGED <<saveVars, stats, conf, manifest, owned, pool, clippers, wk,
                   counter, runVars, delivered, budget>>

\* builder.save(threads) has returned
MergeDone ==
    /\ mg.pc = "save"
    /\ sv.n > 0 /\ sv.pc = "idle"
    /\ mg' = [mg EXCEPT !.pc = "done"]
    /\ UNCHANGED <<saveVars, stats, conf, manifest, cacheVars, clippers, wk,
                   counter, runVars, delivered, budget>>

(***************************************************************************)
(* The builds checked.                                                     *)
(***************************************************************************)
Kinds == {"ok", "unreadable", "nostages", "nonlinear", "corrupt"}

\* a BuildItem: inserted, source.info.points, whether source.info.bounds
\* overlaps the active bounds, source.info.errors, what reading the source
\* does; before remembers the inserted flag of the start of the run
Item(ins, pts, ovl, kind) ==
    [inserted |-> ins, points |-> pts, overlaps |-> ovl, errors |-> <<>>,
     kind |-> kind, before |-> ins, metadataPath |-> <<>>]

\* coords and points bound what the readers deliver
Config(min, max, subset, limit, work, interval, coords, points) ==
    [minNodeSize |-> min, maxNodeSize |-> max, subset |-> subset,
     sharedDepth |-> IF subset THEN 1 ELSE 0, limit |-> limit, work |-> work,
     interval |-> interval, coords |-> coords, points |-> points,
     putFails |-> FALSE]

\* no merge is under way
NoMerge == [pc |-> "none"]

InitWith(confs, manifests) ==
    /\ conf \in confs
    /\ manifest \in manifests
    /\ hierarchy = EmptyMap
    /\ slices = EmptyMap
    /\ owned = {}
    /\ pool = {}
    /\ files = EmptyMap
    /\ clippers = [o \in Origins |-> NewClipper]
    /\ wk = [o \in Origins |-> NewTask]
    /\ counter = 0
    /\ ri = [pc |-> "loop", origin |-> 1, filesInserted |-> 0]
    /\ mon = "run"
    /\ done = FALSE
    /\ delivered = [o \in Origins |-> <<>>]
    /\ budget = conf.points
    /\ stats = [o \in Origins |-> <<>>]
    /\ schema = <<>>
    /\ output = <<>>
    /\ sv = [pc |-> "idle", n |-> 0]
    /\ mg = NoMerge

\* every source good: the cache under concurrent inserts
Init ==
    InitWith({Config(1, 2, FALSE, 0, 2, 0, Coords, MaxPoints),
              Config(2, 3, FALSE, 0, 2, 0, Coords, MaxPoints),
              Config(1, 2, TRUE, 0, 2, 0, Coords, MaxPoints)},
             {[o \in Origins |-> Item(FALSE, 1, TRUE, "ok")]})

\* one source, read by one worker in enough batches for its Clipper to clip
\* three times
InitClip ==
    InitWith({Config(1, 2, FALSE, 0, 1, 0, {<<3, 3, 3>>, <<5, 5, 5>>}, ClipPoints)},
             {[o \in Origins |-> IF o = 1 THEN Item(FALSE, 1, TRUE, "ok")
                                          ELSE Item(TRUE, 1, TRUE, "ok")]})

\* one source read by one worker into chunks that keep their overflow until
\* three points are in them
InitLoad ==
    InitWith({Config(1, 3, FALSE, 0, 1, 0, Coords, MaxPoints)},
             {[o \in Origins |-> IF o = 1 THEN Item(FALSE, 1, TRUE, "ok")
                                          ELSE Item(TRUE, 1, TRUE, "ok")]})

\* one source, with and without a progress interval, on an output whose puts
\* may fail
InitLive ==
    InitWith({[Config(1, 2, FALSE, 0, 1, interval, Coords, MaxPoints)
                  EXCEPT !.putFails = TRUE] : interval \in {0, 1}},
             {[o \in Origins |-> IF o = 1 THEN Item(FALSE, 1, TRUE, "ok")
                                          ELSE Item(TRUE, 1, TRUE, "ok")]})

\* one source of points of two opposite octants, read by one worker into
\* chunks with min_node_size = max_node_size, or with a max_node_size that
\* two buckets of equal size reach together
InitSplit ==
    InitWith({Config(2, 2, FALSE, 0, 1, 0, {<<3, 3, 3>>, <<5, 5, 5>>}, SplitPoints),
              Config(1, 4, FALSE, 0, 1, 0, {<<3, 3, 3>>, <<5, 5, 5>>}, SplitPoints)},
             {[o \in Origins |-> IF o = 1 THEN Item(FALSE, 1, TRUE, "ok")
                                          ELSE Item(TRUE, 1, TRUE, "ok")]})

\* the manifest entries of the varied builds: the three ways not to be
\* eligible, and an eligible source of each kind
Items ==
    {Item(TRUE, 1, TRUE, "ok"), Item(FALSE, 0, TRUE, "ok"),
     Item(FALSE, 1, FALSE, "ok")}
        \cup {Item(FALSE, 1, TRUE, kind) : kind \in Kinds}

\* any manifest, any limit
InitBuild ==
    InitWith({Config(1, 2, FALSE, limit, 1, 0, {<<3, 3, 3>>, <<7, 7, 7>>},
                     BuildPoints) : limit \in 0 .. NumSources},
             [Origins -> Items])

\* a merge, forced or not, over every output: a completed dataset there or
\* not, any of the subsets there or not
InitMerge ==
    /\ conf = Config(1, 2, TRUE, 0, NumSources, 0, {}, 0)
    /\ manifest = [o \in Origins |-> Item(TRUE, 1, TRUE, "ok")]
    /\ hierarchy = EmptyMap
    /\ slices = EmptyMap
    /\ owned = {}
    /\ pool = {}
    /\ files = EmptyMap
    /\ clippers = [o \in Origins |-> NewClipper]
    /\ wk = [o \in Origins |-> NewTask]
    /\ counter = 0
    /\ ri = [pc |-> "none", origin |-> 1, filesInserted |-> 0]
    /\ mon = "none"
    /\ done = FALSE
    /\ delivered = [o \in Origins |-> <<>>]
    /\ budget = 0
    /\ stats = [o \in Origins |-> <<>>]
    /\ schema = <<>>
    /\ output = <<>>
    /\ sv = [pc |-> "idle", n |-> 0]
    /\ mg \in {[pc |-> "start", force |-> f,
                 store |-> [ept |-> e, subsets |-> present],
                 err |-> "", loaded |-> {}, id |-> 1, merged |-> {},
                 shared |-> 0, src |-> s, todo |-> [id \in Origins |-> <<>>]] :
                   f \in BOOLEAN, e \in BOOLEAN, present \in SUBSET Origins,
                   s \in {t \in [Origins -> UNION {SubsetOutputs(id) : id \in Origins}] :
                             \A id \in Origins : t[id] \in SubsetOutputs(id)}}

\* one source of points that all have the same coordinates, one more than
\* the arrays have depths, read by one worker
InitDeep ==
    InitWith({Config(1, 2, FALSE, 0, 1, 0, {<<3, 3, 3>>}, MaxDepth + 1)},
             {[o \in Origins |-> IF o = 1 THEN Item(FALSE, 1, TRUE, "ok")
                                          ELSE Item(TRUE, 1, TRUE, "ok")]})

\* a point the earlier run stored: the first source's point number id
PriorPoint(id) == [p |-> <<3, 3, 3>>, o |-> 1, id |-> id]

\* what an earlier run of the build (node sizes 1 and 2, the first source
\* only) has left on the output: the root with one point, or the root and the
\* child a second point at the same place was split off to
PriorBuilds ==
    {[delivered |-> << <<3, 3, 3>> >>,
      files     |-> MapSet(EmptyMap, Dxyz(RootChunk), <<PriorPoint(0)>>),
      hierarchy |-> HierSet(EmptyMap, Dxyz(RootChunk), 1)],
     [delivered |-> << <<3, 3, 3>>, <<3, 3, 3>> >>,
      files     |-> MapSet(MapSet(EmptyMap, Dxyz(RootChunk), <<PriorPoint(0)>>),
                           Dxyz(KeyStep(RootChunk, <<3, 3, 3>>)), <<PriorPoint(1)>>),
      hierarchy |-> HierSet(HierSet(EmptyMap, Dxyz(RootChunk), 1),
                            Dxyz(KeyStep(RootChunk, <<3, 3, 3>>)), 1)]}

\* a build continued: builder::create has loaded the manifest and the
\* hierarchy of the earlier run, whose source is inserted; the other sources
\* are new; the cache of this run starts without entries and owns nothing
InitResume ==
    /\ conf = Config(1, 2, FALSE, 0, 1, 0, {<<3, 3, 3>>, <<5, 5, 5>>}, MaxPoints)
    /\ manifest = [o \in Origins |-> IF o = 1 THEN Item(TRUE, 1, TRUE, "ok")
                                              ELSE Item(FALSE, 1, TRUE, "ok")]
    /\ \E b \in PriorBuilds :
          /\ hierarchy = b.hierarchy
          /\ files = b.files
          /\ delivered = [o \in Origins |-> IF o = 1 THEN b.delivered ELSE <<>>]
          /\ stats = [o \in Origins |-> IF o = 1 THEN Harvest(b.delivered) ELSE <<>>]
    /\ slices = EmptyMap
    /\ owned = {}
    /\ pool = {}
    /\ clippers = [o \in Origins |-> NewClipper]
    /\ wk = [o \in Origins |-> NewTask]
    /\ counter = 0
    /\ ri = [pc |-> "loop", origin |-> 1, filesInserted |-> 0]
    /\ mon = "run"
    /\ done = FALSE
    /\ budget = conf.points
    /\ schema = <<>>
    /\ output = <<>>
    /\ sv = [pc |-> "idle", n |-> 0]
    /\ mg = NoMerge

Next ==
    \/ Submit
    \/ \E o \in Origins : Start(o)
    \/ \E o \in Origins : Read(o)
    \/ \E o \in Origins : Insert(o)
    \/ \E o \in Origins : After(o)
    \/ \E t \in pool : Serialize(t)
    \/ \E t \in pool : Erase(t)
    \/ JoinPool
    \/ CacheJoin
    \/ SaveHierarchy
    \/ SaveSources
    \/ SaveMetadata
    \/ SetDone
    \/ Monitor

Spec == Init /\ [][Next]_vars

SpecClip == InitClip /\ [][Next]_vars

SpecBuild == InitBuild /\ [][Next]_vars

SpecLoad == InitLoad /\ [][Next]_vars

SpecSplit == InitSplit /\ [][Next]_vars

SpecResume == InitResume /\ [][Next]_vars

SpecDeep == InitDeep /\ [][Next]_vars

NextMerge ==
    \/ MergeCheck
    \/ MergeLoadBase
    \/ MergeSubmit
    \/ \E id \in Origins : MergeStart(id)
    \/ \E id \in Origins : Insert(id)
    \/ \E id \in Origins : MergeCopy(id)
    \/ \E id \in Origins : MergeOne(id)
    \/ \E t \in pool : Serialize(t)
    \/ \E t \in pool : Erase(t)
    \/ MergeJoin
    \/ SaveHierarchy
    \/ SaveSources
    \/ SaveMetadata
    \/ MergeDone

SpecMerge == InitMerge /\ [][NextMerge]_vars

(***************************************************************************)
(* The threads of a build: the inserter task and the monitor task of       *)
(* Builder::run, the workers of the insert pool, and the background pool   *)
(* of the cache.  A thread that can take a step is scheduled in the end.   *)
(* For a worker inside cache.insert this is stated of its position: it     *)
(* does not stay there for ever, a lock it waits for being held by a       *)
(* thread that goes on in its turn.                                        *)
(***************************************************************************)
Inserter ==
    Submit \/ JoinPool \/ CacheJoin \/ SaveHierarchy \/ SaveSources
        \/ SaveMetadata \/ SetDone

Reader(o) == Start(o) \/ Read(o) \/ After(o)

Background == \E t \in pool : Serialize(t) \/ Erase(t)

Fairness ==
    /\ WF_vars(Inserter)
    /\ WF_vars(Monitor)
    /\ \A o \in Origins : WF_vars(Reader(o))
    /\ \A o \in Origins : []<>(wk[o].pc # "insert")
    /\ WF_vars(Background)

SpecLive == InitLive /\ [][Next]_vars /\ Fairness

\* the same threads in the build whose worker clips repeatedly
SpecClipLive == InitClip /\ [][Next]_vars /\ Fairness

(***************************************************************************)
(* What the readers delivered, as the claims count it.                     *)
(***************************************************************************)
\* the points of a sequence inside the conforming bounds and, with a subset,
\* inside the bounds of the subset
RECURSIVE CountInside(_, _)
CountInside(c, s) ==
    IF s = <<>> THEN 0
    ELSE (IF InConforming(Head(s)) /\ (c.subset => InSubset(Head(s)))
          THEN 1 ELSE 0) + CountInside(c, Tail(s))

TotalInside ==
    SumMap([o \in Origins |-> CountInside(conf, delivered[o])], Origins)

(***************************************************************************)
(* C1  Conservation.  Once Builder::run has returned, for a build that     *)
(* started with an empty hierarchy, the sum of the hierarchy counts equals *)
(* the shared counter, and both equal the number of delivered points that  *)
(* lie inside the conforming bounds (and the subset bounds when active).   *)
(***************************************************************************)
C1_Conservation ==
    RunReturned =>
        /\ HierSum(hierarchy) = counter
        /\ counter = TotalInside

\* a completed run of two workers with a split, an eviction written by the
\* background pool before the join, and a point passed over by the filter
C1_Witness ==
    /\ RunReturned
    /\ Cardinality(DOMAIN hierarchy) >= 2
    /\ counter >= 2
    /\ \A o \in Origins : delivered[o] # <<>>
    /\ TotalInside < SumMap([o \in Origins |-> Len(delivered[o])], Origins)

(***************************************************************************)
(* C2  Every chunk pointer a Clipper holds (fast, slow or aged) refers to  *)
(* a slice entry that exists, has a reference count of at least one and    *)
(* still holds the Chunk the pointer was taken from; no worker ever meets  *)
(* a held entry without its Chunk.                                         *)
(***************************************************************************)
Pointers(cl) == cl.fast \cup cl.slow \cup cl.aged

C2_HeldChunksLive ==
    /\ \A o \in Origins : \A q \in Pointers(clippers[o]) :
          /\ q.k \in DOMAIN slices
          /\ slices[q.k].refs >= 1
          /\ slices[q.k].chunk # NoChunk
          /\ slices[q.k].gen = q.g
    /\ \A o \in Origins : wk[o].pc # "ub"

\* a worker holds a chunk whose serialization was queued when the other
\* worker's reference, then the last one, was released: the task is pending
C2_Witness ==
    \E o \in Origins : \E q \in Pointers(clippers[o]) :
        /\ [k |-> q.k, stage |-> "serialize"] \in pool
        /\ wk[o].pc = "insert"

(***************************************************************************)
(* C3  When ChunkCache::join has returned, every entry still in a slice    *)
(* has a reference count of zero and holds no Chunk, and every chunk ever  *)
(* materialized has a file, whose number of points is the count recorded   *)
(* for it in the hierarchy.                                                *)
(***************************************************************************)
C3_JoinBalance ==
    ri.pc \in {"save", "saved", "returned"} =>
        /\ \A k \in DOMAIN slices :
              slices[k].refs = 0 /\ slices[k].chunk = NoChunk
        /\ \A k \in owned :
              /\ k \in DOMAIN files
              /\ k \in DOMAIN hierarchy
              /\ hierarchy[k] = Len(files[k])
              /\ hierarchy[k] > 0

\* join has just returned, after both workers inserted and a chunk was split
C3_Witness ==
    /\ ri.pc = "save"
    /\ Cardinality(owned) >= 2
    /\ \A o \in Origins : wk[o].pc = "done" /\ wk[o].pointId > 0

(***************************************************************************)
(* C4  In every step, the reference count of each slice entry changes by   *)
(* the number of Clippers that take the chunk minus the number that let it *)
(* go (so a release lowers it by exactly one for the one addRef made); a   *)
(* clip lets go of exactly the chunks in aged and not in slow; and         *)
(* ReffedChunk::del never throws 'Negative'.                               *)
(***************************************************************************)
\* the chunks of aged that are not in slow
AgedOnly(cl) ==
    {k \in {q.k : q \in cl.aged} : \A q \in cl.slow : q.k # k}

\* this step is the start of a batch of worker o at which its Clipper clips
ClipStep(o) ==
    /\ wk[o].pc = "read"
    /\ delivered'[o] # delivered[o]
    /\ wk'[o].pc # "done"
    /\ wk'[o].inserted = 0

RefsOf(sl, k) == IF k \in DOMAIN sl THEN sl[k].refs ELSE 0

C4_Step ==
    /\ \A k \in (DOMAIN slices) \cup (DOMAIN slices') :
          RefsOf(slices', k) - RefsOf(slices, k) =
              Cardinality({o \in Origins :
                              k \in Held(clippers'[o]) \ Held(clippers[o])})
            - Cardinality({o \in Origins :
                              k \in Held(clippers[o]) \ Held(clippers'[o])})
    /\ \A o \in Origins :
          ClipStep(o) =>
              Held(clippers[o]) \ Held(clippers'[o]) = AgedOnly(clippers[o])
    /\ \A o \in Origins : \A i \in 1 .. Len(manifest'[o].errors) :
          manifest'[o].errors[i] # "Negative"

C4_ReleasedOnce == [][C4_Step]_vars

\* the worker is inserting, its Clipper alive, and a chunk it materialized
\* earlier is no longer held: a clip has released it
C4_Witness ==
    /\ wk[1].pc = "insert"
    /\ \E k \in owned : k \notin Held(clippers[1])
    /\ \A o \in Origins \ {1} : wk[o].pc = "idle"

(***************************************************************************)
(* C5  Nearest-kept rule.  As claimed: of the points that arrived at one   *)
(* grid cell of a chunk, the one stored has the least squared distance to  *)
(* the midpoint of the chunk's bounds.  Chunk::insert compares distances   *)
(* to key.bounds().mid(), the midpoint of the cell: the stored point is    *)
(* the first arrival among those nearest the midpoint of the cell, and no  *)
(* other arrival at the cell is stored in the grid of that chunk.          *)
(***************************************************************************)
\* the dxyz of the slice entries that hold a Chunk
LiveChunks == {k \in DOMAIN slices : slices[k].chunk # NoChunk}

\* the key of the cell a slot of the grid of chunk ck belongs to
CellKey(ck, slot) ==
    [lv  |-> ck.lv + StartDepth,
     pos |-> <<ck.pos[1] * Span + (slot.tube % Span),
               ck.pos[2] * Span + (slot.tube \div Span),
               slot.z>>]

\* the first of the arrivals at least distant from the midpoint of key m
FirstNearest(m, arrived) ==
    LET best == CHOOSE i \in 1 .. Len(arrived) :
                    /\ \A j \in 1 .. Len(arrived) :
                          SqDistToMid(m, arrived[i].p) <= SqDistToMid(m, arrived[j].p)
                    /\ \A j \in 1 .. (i - 1) :
                          SqDistToMid(m, arrived[i].p) < SqDistToMid(m, arrived[j].p)
    IN  arrived[best]

\* the claim as made: nearest to the midpoint of the chunk
C5_NearestToChunkMid ==
    \A k \in LiveChunks : \A j \in 1 .. Len(slices[k].chunk.grid) :
        LET slot == slices[k].chunk.grid[j]
        IN  \A i \in 1 .. Len(slot.arrived) :
                SqDistToMid(KeyOf(k), slot.pt.p)
                    <= SqDistToMid(KeyOf(k), slot.arrived[i].p)

\* the rule of the code: first nearest to the midpoint of the cell
C5_NearestToCellMid ==
    \A k \in LiveChunks : \A j \in 1 .. Len(slices[k].chunk.grid) :
        LET grid == slices[k].chunk.grid
            slot == grid[j]
        IN  /\ slot.pt = FirstNearest(CellKey(KeyOf(k), slot), slot.arrived)
            /\ \A i \in 1 .. Len(slot.arrived) :
                  slot.arrived[i] # slot.pt =>
                      \A j2 \in 1 .. Len(grid) : grid[j2].pt # slot.arrived[i]

\* a cell at which three points arrived, two of them at the same distance,
\* and where the arrival stored is not the last one
C5_Witness ==
    \E k \in LiveChunks : \E j \in 1 .. Len(slices[k].chunk.grid) :
        LET slot == slices[k].chunk.grid[j]
            m    == CellKey(KeyOf(k), slot)
        IN  /\ Len(slot.arrived) = 3
            /\ \E a, b \in 1 .. 3 :
                  /\ a < b
                  /\ slot.arrived[a].p # slot.arrived[b].p
                  /\ SqDistToMid(m, slot.arrived[b].p)
                        < SqDistToMid(m, slot.arrived[a].p)
            /\ \E a, b \in 1 .. 3 :
                  /\ a < b
                  /\ slot.arrived[a].p = slot.arrived[b].p
                  /\ slot.pt = slot.arrived[a]

(***************************************************************************)
(* C6  Spatial containment.  Every point a chunk holds, in its grid or in  *)
(* an overflow bucket, and every point of every chunk file written, lies   *)
(* inside the bounds of that chunk.                                        *)
(***************************************************************************)
C6_Containment ==
    /\ \A k \in LiveChunks :
          LET c == slices[k].chunk
          IN  /\ \A j \in 1 .. Len(c.grid) : KeyContains(KeyOf(k), c.grid[j].pt.p)
              /\ \A d \in Dirs : \A j \in 1 .. Len(c.ov[d].list) :
                    KeyContains(KeyOf(k), c.ov[d].list[j].pt.p)
    /\ \A k \in DOMAIN files : \A j \in 1 .. Len(files[k]) :
          KeyContains(KeyOf(k), files[k][j].p)

\* the file of a chunk below the root, made by a split, that was saved with
\* a point in its grid and a point of the same coordinates in a bucket
C6_Witness ==
    \E k \in DOMAIN files :
        /\ k[1] >= 1
        /\ Len(files[k]) >= 2
        /\ files[k][1].p = files[k][2].p

(***************************************************************************)
(* C7  tryInsert never propagates an error.  In the step in which the      *)
(* task of a source returns, its manifest entry gets inserted = TRUE, its  *)
(* error list gains exactly one string if insert threw and is unchanged if *)
(* insert returned, and no other entry changes.                            *)
(***************************************************************************)
\* this step is the return of tryInsert for origin o
Returns(o) == wk[o].pc # "done" /\ wk'[o].pc = "done"

\* insert leaves by an exception: before or while reading, or after the last
\* batch when the pipeline is not linear
Throws(o) ==
    \/ wk[o].pc \in {"queued", "read"}
    \/ wk[o].pc = "after" /\ manifest[o].kind = "nonlinear"

C7_Step ==
    \A o \in Origins :
        Returns(o) =>
            /\ manifest'[o].inserted = TRUE
            /\ IF Throws(o)
               THEN /\ Len(manifest'[o].errors) = Len(manifest[o].errors) + 1
                    /\ SubSeq(manifest'[o].errors, 1, Len(manifest[o].errors))
                          = manifest[o].errors
               ELSE manifest'[o].errors = manifest[o].errors
            /\ \A p \in Origins \ {o} : manifest'[p] = manifest[p]
            /\ [manifest'[o] EXCEPT !.inserted = FALSE, !.errors = <<>>]
                  = [manifest[o] EXCEPT !.inserted = FALSE, !.errors = <<>>]

C7_TryInsertSettles == [][C7_Step]_vars

\* both tasks have returned, one after a failed read with its error recorded,
\* the other normally with points inserted; run has gone on to its end
C7_Witness ==
    /\ RunReturned
    /\ counter > 0
    /\ \E o, p \in Origins :
          /\ manifest[o].kind = "corrupt"
          /\ manifest[o].inserted /\ Len(manifest[o].errors) = 1
          /\ manifest[p].kind = "ok" /\ ~manifest[p].before
          /\ manifest[p].inserted /\ manifest[p].errors = <<>>

(***************************************************************************)
(* C8  As claimed: an invariant violation raised while a worker executes   *)
(* insert ('Negative', 'Missing chunk', a pipeline that is not linear, a   *)
(* pipeline without stages) aborts the build and is not recorded as an     *)
(* error of the source.  The catch clauses of tryInsert catch every        *)
(* exception: the violation is recorded in the error list of the source,   *)
(* the source is marked inserted, and the build goes on.                   *)
(***************************************************************************)
Violations ==
    {"Negative", "Missing chunk", "Invalid pipeline - must be linear",
     "Invalid pipeline - no stages"}

C9_EmptyMarkedInserted ==
    RunReturned =>
        \A o \in Origins :
            manifest[o].points = 0 =>
                manifest[o].inserted /\ manifest[o].errors = <<>>

\* what runInserts does
C9_EmptyPassedOver ==
    \A o \in Origins :
        manifest[o].points = 0 =>
            /\ wk[o].pc = "idle"
            /\ manifest[o].inserted = manifest[o].before
            /\ manifest[o].errors = <<>>

\* run has returned: the source without points is still not inserted, the
\* other source is
C9_Witness ==
    /\ RunReturned
    /\ \E o, p \in Origins :
          /\ manifest[o].points = 0 /\ ~manifest[o].inserted
          /\ ~manifest[p].before /\ manifest[p].inserted

(***************************************************************************)
(* C10  When the loop of runInserts has ended, the sources submitted are   *)
(* eligible ones; with limit = 0 they are all the eligible ones; with      *)
(* limit > 0 they are the first min(limit, number of eligible) eligible    *)
(* ones in manifest order, entries passed over not counting; and at no     *)
(* moment are more than limit sources submitted.                           *)
(***************************************************************************)
\* eligible at the start of the run
WasEligible(o) ==
    /\ ~manifest[o].before
    /\ manifest[o].points # 0
    /\ manifest[o].overlaps

EligibleSources == {o \in Origins : WasEligible(o)}

SubmittedSources == {o \in Origins : wk[o].pc # "idle"}

C10_Limit ==
    /\ SubmittedSources \subseteq EligibleSources
    /\ conf.limit > 0 => Cardinality(SubmittedSources) <= conf.limit
    /\ \A o \in SubmittedSources :
          \A e \in EligibleSources : e < o => e \in SubmittedSources
    /\ ri.pc # "loop" =>
          Cardinality(SubmittedSources) =
              IF conf.limit = 0 THEN Cardinality(EligibleSources)
              ELSE Min2(conf.limit, Cardinality(EligibleSources))

\* the loop has ended under limit 1 with two eligible sources, one submitted
C10_Witness ==
    /\ ri.pc # "loop"
    /\ conf.limit = 1
    /\ Cardinality(EligibleSources) = 2
    /\ Cardinality(SubmittedSources) = 1

(***************************************************************************)
(* C11: runInserts hands an entry to tryInsert exactly when, at the start  *)
(* of the run, its inserted flag is false, its point count is non-zero and *)
(* its bounds overlap the active bounds (the limit aside).  An entry whose *)
(* flag is already set is never handed to tryInsert: no point of it is     *)
(* read, and its flag and its error list stay as they were.                *)
(***************************************************************************)
C11_Eligibility ==
    /\ \A o \in Origins : wk[o].pc # "idle" => WasEligible(o)
    /\ (ri.pc # "loop" /\ conf.limit = 0) =>
          \A o \in Origins : WasEligible(o) => wk[o].pc # "idle"
    /\ \A o \in Origins : manifest[o].before =>
          /\ wk[o] = NewTask
          /\ delivered[o] = <<>>
          /\ manifest[o].inserted
          /\ manifest[o].errors = <<>>

\* the run has returned with one entry inserted before it and passed over,
\* and one entry handed to tryInsert and read
C11_Witness ==
    /\ RunReturned
    /\ \E o \in Origins : manifest[o].before /\ wk[o].pc = "idle"
    /\ \E o \in Origins :
          /\ ~manifest[o].before
          /\ wk[o].pc = "done"
          /\ delivered[o] # <<>>

(***************************************************************************)
(* C12: a call of Builder::save that follows another on the same Builder,  *)
(* with nothing in between, puts the same files with the same content, in  *)
(* the same order: the hierarchy, the manifest and the files of the        *)
(* sources, ept.json, ept-build.json.  The metadata paths assigned and the *)
(* stats folded by the first call do not change what the second writes.    *)
(***************************************************************************)
\* call n of save has put every one of its files
SaveComplete(n) ==
    /\ n \in 1 .. Len(output)
    /\ output[n].hierarchy # <<>>
    /\ output[n].sources # <<>>
    /\ output[n].ept # <<>>
    /\ output[n].build # <<>>

C12_IdempotentSave ==
    \A n \in 2 .. Len(output) :
        SaveComplete(n) => /\ SaveComplete(n - 1)
                           /\ output[n] = output[n - 1]

\* two calls have returned on a whole build that inserted points; the first
\* assigned the metadata paths and folded the stats of the sources
C12_Witness ==
    /\ SaveComplete(1) /\ SaveComplete(2)
    /\ sv.pc = "idle"
    /\ counter > 0
    /\ \A o \in Origins : manifest[o].metadataPath # <<>>
    /\ schema # <<>> /\ schema[1] > 0
    /\ output[2].ept[1].schema = schema

(***************************************************************************)
(* C13: a chunk that has been saved and is no longer in memory, loaded     *)
(* again by Chunk::load into a Chunk constructed under the hierarchy of    *)
(* that moment, holds the points of its file: saving it again writes the   *)
(* same points in the same order, and no loaded point has left the chunk   *)
(* for a descendant.                                                       *)
(***************************************************************************)
Reloaded(k) ==
    LoadChunk(NewChunk(KeyOf(k), hierarchy), KeyOf(k), files[k], conf)

C13_RoundTrip ==
    \A k \in DOMAIN files :
        k \notin LiveChunks =>
            /\ Reloaded(k).left = <<>>
            /\ ChunkSave(Reloaded(k).chunk) = files[k]

\* the file of the root holds three points, one of them from an overflow
\* bucket, and loading it splits that bucket off to the child
C13_SplitOnLoad ==
    \E k \in DOMAIN files :
        /\ k \notin LiveChunks
        /\ Len(files[k]) = conf.maxNodeSize
        /\ Reloaded(k).left # <<>>
        /\ Len(ChunkSave(Reloaded(k).chunk)) < Len(files[k])

(***************************************************************************)
(* C14: in the step in which a Chunk is constructed, its overflow bucket d *)
(* is present if and only if the hierarchy holds no non-zero count for the *)
(* child at d; so a bucket absent at construction means the hierarchy has  *)
(* an entry for that child.                                                *)
(***************************************************************************)
Constructed(k) ==
    /\ k \in DOMAIN slices'
    /\ slices'[k].chunk # NoChunk
    /\ \/ k \notin DOMAIN slices
       \/ slices[k].chunk = NoChunk
       \/ slices[k].gen # slices'[k].gen

ChildCount(k, d) == HierGet(hierarchy, Dxyz(ChildAt(KeyOf(k), d)))

C14_Step ==
    \A k \in DOMAIN slices' :
        Constructed(k) =>
            \A d \in Dirs :
                /\ slices'[k].chunk.ov[d].present <=> ChildCount(k, d) = 0
                /\ ~slices'[k].chunk.ov[d].present =>
                      Dxyz(ChildAt(KeyOf(k), d)) \in DOMAIN hierarchy

C14_BucketIffNoChild == [][C14_Step]_vars

\* a Chunk as constructed, nothing in it yet, without the bucket of a child
\* that the hierarchy counts, and with the buckets of the other children
C14_Witness ==
    \E k \in LiveChunks :
        /\ slices[k].chunk.grid = <<>>
        /\ slices[k].chunk.ovCount = 0
        /\ \E d \in Dirs : ~slices[k].chunk.ov[d].present /\ ChildCount(k, d) > 0
        /\ \E d \in Dirs : slices[k].chunk.ov[d].present /\ ChildCount(k, d) = 0

(***************************************************************************)
(* C15: in runInserts save starts only after every submitted tryInsert     *)
(* task has returned and ChunkCache::join has returned.  From the call of  *)
(* save on, no task is running and no background task is queued, and no    *)
(* step inserts a point, serializes a chunk or updates the hierarchy.      *)
(***************************************************************************)
SaveReached == ri.pc \in {"save", "saved", "returned", "failed"}

C15_Step ==
    SaveReached =>
        /\ \A o \in Origins : wk[o].pc \in {"idle", "done"}
        /\ pool = {}
        /\ LiveChunks = {}
        /\ UNCHANGED <<wk, counter, cacheVars, clippers, delivered>>

C15_SaveAfterJoins == [][C15_Step]_vars

\* save is called after both workers inserted points and their chunks were
\* written, and it goes on to its second file
C15_Witness ==
    /\ ri.pc = "save"
    /\ sv.pc = "sources"
    /\ counter > 1
    /\ \A o \in Origins : wk[o].pc = "done" /\ wk[o].pointId > 0
    /\ Cardinality(DOMAIN files) > 1

(***************************************************************************)
(* C16: Builder::save puts the hierarchy, then the manifest, then ept.json *)
(* and ept-build.json.  Whenever the ept.json of a call of save is on the  *)
(* output, the hierarchy, the manifest and the build metadata              *)
(* (ept-build.json) of that call are on the output as well.                *)
(***************************************************************************)
C16_EptWrittenLast ==
    \A n \in 1 .. Len(output) :
        output[n].ept # <<>> =>
            /\ output[n].hierarchy # <<>>
            /\ output[n].sources # <<>>
            /\ output[n].build # <<>>

\* the first save of a build has put ept.json after the hierarchy and the
\* manifest, and ept-build.json is not on the output
C16_EptBeforeBuild ==
    /\ Len(output) = 1
    /\ output[1].order = <<"hierarchy", "sources", "ept">>
    /\ output[1].build = <<>>
    /\ sv.pc = "build"

(***************************************************************************)
(* C17: Builder::run terminates.  In every fair execution, also one in     *)
(* which runInserts ends with an error, the monitor task leaves its loop   *)
(* and both tasks of run have ended, so that pool.join() and run return.   *)
(***************************************************************************)
InserterEnded == ri.pc \in {"returned", "failed"}

C17_RunTerminates == <>(InserterEnded /\ mon = "returned")

\* runInserts has ended with the error of a put of save, done was never set,
\* and the monitor, which has an interval, is still in its loop
C17_MonitorSpins ==
    /\ ri.pc = "failed"
    /\ ~done
    /\ conf.interval > 0
    /\ mon = "run"
    /\ ~ENABLED Next

(***************************************************************************)
(* C18: within one source the point ids start at 0 and go up by one with   *)
(* every point the reader delivers, over all batches, whether the point    *)
(* passes the bounds filter or not.  So the id of a point is its position  *)
(* in the order of the reader, and no two points of a source share an id.  *)
(***************************************************************************)
\* every point that is in a chunk, in a chunk file or on its way into one
Placed ==
    UNION {{slices[k].chunk.grid[j].pt : j \in 1 .. Len(slices[k].chunk.grid)}
              : k \in LiveChunks}
    \cup UNION {{slices[k].chunk.ov[d].list[j].pt :
                    j \in 1 .. Len(slices[k].chunk.ov[d].list)}
                  : k \in LiveChunks, d \in Dirs}
    \cup UNION {{files[k][j] : j \in 1 .. Len(files[k])} : k \in DOMAIN files}
    \cup UNION {{wk[o].stack[i].pt :
                    i \in {n \in 1 .. Len(wk[o].stack) : wk[o].stack[n].t = "ins"}}
                  : o \in Origins}

C18_PointIds ==
    /\ \A o \in Origins :
          wk[o].pointId = Len(delivered[o]) - Len(wk[o].table)
    /\ \A pt \in Placed :
          /\ pt.id >= 0
          /\ pt.id < wk[pt.o].pointId
          /\ delivered[pt.o][pt.id + 1] = pt.p
    /\ \A pt \in Placed, qt \in Placed :
          (pt.o = qt.o /\ pt.id = qt.id) => pt = qt

\* a point of the second batch is in a chunk file with the id of its place in
\* the order of the reader, after a point of the first batch was passed over
C18_Witness ==
    \E k \in DOMAIN files : \E j \in 1 .. Len(files[k]) :
        /\ files[k][j].id >= BatchSize
        /\ \E i \in 1 .. BatchSize : ~Accepted(conf, delivered[files[k][j].o][i])
        /\ \E i \in 1 .. Len(files[k]) : files[k][i].o = files[k][j].o /\ i # j

(***************************************************************************)
(* C19: when the points of a build that pass the filter all fall into      *)
(* different cells of the grid of the root chunk, they are all stored in   *)
(* the root chunk, whatever the node sizes: no other chunk comes to be,    *)
(* and the hierarchy of the completed build has the root as its one entry, *)
(* counting the points inserted.                                           *)
(***************************************************************************)
\* the places <<origin, index>> of the delivered points that pass the filter
InsidePlaces ==
    {pl \in Origins \X (1 .. MaxPoints) :
        /\ pl[2] <= Len(delivered[pl[1]])
        /\ Accepted(conf, delivered[pl[1]][pl[2]])}

RootCell(pl) ==
    LET pos == KeyInit(delivered[pl[1]][pl[2]], 0).pos
    IN  <<TubeOf(pos), pos[3]>>

DistinctCells ==
    \A pl \in InsidePlaces, ql \in InsidePlaces :
        pl # ql => RootCell(pl) # RootCell(ql)

C19_RootOnly ==
    DistinctCells =>
        /\ DOMAIN slices \subseteq {Dxyz(RootChunk)}
        /\ DOMAIN files \subseteq {Dxyz(RootChunk)}
        /\ DOMAIN hierarchy \subseteq {Dxyz(RootChunk)}
        /\ (RunReturned /\ InsidePlaces # {}) =>
              /\ DOMAIN hierarchy = {Dxyz(RootChunk)}
              /\ hierarchy[Dxyz(RootChunk)] = Cardinality(InsidePlaces)
              /\ hierarchy[Dxyz(RootChunk)] = counter

\* a completed build of two points in different cells of the root, as many
\* as max_node_size, both counted by the one entry of the hierarchy
C19_Witness ==
    /\ RunReturned
    /\ DistinctCells
    /\ Cardinality(InsidePlaces) = conf.maxNodeSize
    /\ \E pl \in InsidePlaces, ql \in InsidePlaces : pl[1] # ql[1]
    /\ DOMAIN hierarchy = {Dxyz(RootChunk)}
    /\ hierarchy[Dxyz(RootChunk)] = conf.maxNodeSize

(***************************************************************************)
(* C20: builder::merge throws at its start if force is false and ept.json  *)
(* is on the output, or if ept-1.json is not; and then no subset has been  *)
(* loaded, the cache has not been touched and nothing has been written.    *)
(* Otherwise it does not throw there and goes on to load the first subset. *)
(***************************************************************************)
MergeRefused ==
    \/ ~mg.force /\ mg.store.ept
    \/ 1 \notin mg.store.subsets

C20_MergeThrowsFirst ==
    /\ mg.pc # "start" => (mg.pc = "threw" <=> MergeRefused)
    /\ mg.pc = "threw" =>
          /\ mg.err # ""
          /\ mg.loaded = {}
          /\ mg.merged = {}
          /\ slices = EmptyMap /\ owned = {} /\ pool = {}
          /\ files = EmptyMap /\ hierarchy = EmptyMap
          /\ output = <<>> /\ sv.n = 0
          /\ \A o \in Origins : wk[o] = NewTask

\* a merge without force has thrown over a completed dataset, although every
\* subset is on the output
C20_Witness ==
    /\ ~mg.force
    /\ mg.store.ept
    /\ mg.store.subsets = Origins
    /\ mg.pc = "threw"
    /\ mg.err = "Completed dataset already exists here"

(***************************************************************************)
(* One call of Chunk::insert as the claims on the chunk observe it: the    *)
(* step of a worker inside ChunkCache::insert, the chunk before and after  *)
(* it, the point handed to insertOverflow, and what became of it.          *)
(***************************************************************************)
\* the innermost cache.insert call of worker o
Frame(o) == Head(wk[o].stack)

\* worker o makes one call of Chunk::insert in this step
InsertStep(o) ==
    /\ wk[o].pc = "insert"
    /\ wk'[o] # wk[o]
    /\ wk'[o].pc \notin {"hung", "ub"}

\* the chunk the call acts on: the one of the slice entry, or the one addRef
\* constructs for it
ChunkBefore(o) ==
    IF Dxyz(Frame(o).ck) \in LiveChunks
    THEN slices[Dxyz(Frame(o).ck)].chunk
    ELSE NewChunk(Frame(o).ck, hierarchy)

ChunkAfter(o) == slices'[Dxyz(Frame(o).ck)].chunk

\* the slots of a grid that belong to the cell of key position pos
CellSlots(grid, pos) ==
    {j \in 1 .. Len(grid) : grid[j].tube = TubeOf(pos) /\ grid[j].z = pos[3]}

\* the cell of the point is taken, so that insertOverflow is called
CallsOverflow(o) == CellSlots(ChunkBefore(o).grid, Frame(o).key.pos) # {}

\* the point handed to insertOverflow: the resident if the arriving point
\* took its place, else the arriving point
Loser(o) ==
    LET j == CHOOSE i \in CellSlots(ChunkBefore(o).grid, Frame(o).key.pos) : TRUE
    IN  IF ChunkAfter(o).grid[j].pt # ChunkBefore(o).grid[j].pt
        THEN ChunkBefore(o).grid[j].pt
        ELSE Frame(o).pt

\* insertOverflow returned false: cache.insert goes on with the loser one
\* level down, at the child of its octant
Descends(o) ==
    /\ Len(wk'[o].stack) = Len(wk[o].stack)
    /\ Head(wk'[o].stack) =
          InsFrame(Loser(o), KeyStep(Frame(o).key, Loser(o).p),
                   KeyStep(Frame(o).ck, Loser(o).p))
    /\ Tail(wk'[o].stack) = Tail(wk[o].stack)

\* the buckets doOverflow detached in this step
Detached(o) ==
    {d \in Dirs : ChunkBefore(o).ov[d].present /\ ~ChunkAfter(o).ov[d].present}

\* the points of a list of overflow entries, or of a list of calls
PointsOf(list) == [j \in 1 .. Len(list) |-> list[j].pt]

(***************************************************************************)
(* C21: as claimed, no chunk file holds two points of the same voxel cell  *)
(* of its chunk (stated of the files; the claim's first half is part of    *)
(* C21_DuplicateOverflows).                                                *)
(***************************************************************************)
C21_NoSharedVoxel ==
    \A k \in DOMAIN files : \A i, j \in 1 .. Len(files[k]) :
        i # j => KeyInit(files[k][i].p, k[1]).pos # KeyInit(files[k][j].p, k[1]).pos

\* C21 as the code has it.  A point that arrives at a cell whose resident has
\* the same coordinates never takes the cell: it is handed to insertOverflow,
\* which appends it to the bucket of its octant or sends it on to the child.
\* The grid of a chunk never holds two points of one cell, and a chunk file
\* is the points of the grid, one per cell, followed by those of the buckets.
C21_Step ==
    /\ \A o \in Origins :
          (InsertStep(o) /\ CallsOverflow(o)) =>
              LET b   == ChunkBefore(o)
                  a   == ChunkAfter(o)
                  j   == CHOOSE i \in CellSlots(b.grid, Frame(o).key.pos) : TRUE
                  dir == GetDirection(Frame(o).ck, Frame(o).pt.p)
              IN  b.grid[j].pt.p = Frame(o).pt.p =>
                      /\ a.grid[j].pt = b.grid[j].pt
                      /\ Len(a.grid) = Len(b.grid)
                      /\ \/ Descends(o) /\ Loser(o) = Frame(o).pt
                         \/ /\ a.ov[dir].present
                            /\ a.ov[dir].list =
                                  Append(b.ov[dir].list,
                                         [pt |-> Frame(o).pt, key |-> Frame(o).key])
                         \/ /\ dir \in Detached(o)
                            /\ Head(wk'[o].stack).t = "ins"
                            /\ \E n \in 1 .. Len(wk'[o].stack) :
                                  /\ wk'[o].stack[n].t = "ins"
                                  /\ wk'[o].stack[n].pt = Frame(o).pt
                                  /\ wk'[o].stack[n].ck = ChildAt(Frame(o).ck, dir)
    /\ \A k \in DOMAIN slices' :
          slices'[k].chunk # NoChunk =>
              \A i, j \in 1 .. Len(slices'[k].chunk.grid) :
                  i # j => <<slices'[k].chunk.grid[i].tube, slices'[k].chunk.grid[i].z>>
                              # <<slices'[k].chunk.grid[j].tube, slices'[k].chunk.grid[j].z>>
    /\ \A k \in DOMAIN files' :
          (k \notin DOMAIN files \/ files'[k] # files[k]) =>
              LET c == slices[k].chunk
              IN  /\ Len(files'[k]) >= Len(c.grid)
                  /\ \A i \in 1 .. Len(c.grid) : files'[k][i] = c.grid[i].pt
                  /\ \A i, j \in 1 .. Len(c.grid) :
                        i # j => KeyInit(files'[k][i].p, k[1]).pos
                                    # KeyInit(files'[k][j].p, k[1]).pos

C21_DuplicateOverflows == [][C21_Step]_vars

\* the file of the root chunk holds two points of the same coordinates, the
\* first from its grid and the second, of another source, from a bucket
C21_Witness ==
    \E k \in DOMAIN files :
        /\ k[1] = 0
        /\ Len(files[k]) = 2
        /\ files[k][1].p = files[k][2].p
        /\ files[k][1].o # files[k][2].o
        /\ hierarchy[k] = 2

(***************************************************************************)
(* C22: as claimed, with min_node_size = max_node_size = M the call of     *)
(* insertOverflow that brings overflow_count to M splits the chunk.        *)
(***************************************************************************)
\* insertOverflow stored the point in a bucket of the chunk (it returned true)
Stores(o) == InsertStep(o) /\ CallsOverflow(o) /\ ~Descends(o)

C22_CountStep ==
    \A o \in Origins :
        (Stores(o) /\ conf.minNodeSize = conf.maxNodeSize
                   /\ ChunkBefore(o).ovCount + 1 = conf.maxNodeSize)
            => Detached(o) # {}

C22_SplitWhenCountReaches == [][C22_CountStep]_vars

\* C22 as the code has it.  With min_node_size = max_node_size = M the split
\* is triggered by the first insertOverflow that brings one bucket to M
\* entries, and it detaches that bucket: overflow_count, the sum over the
\* buckets, may reach and pass M without a split while every bucket is
\* smaller than M.
C22_BucketStep ==
    \A o \in Origins :
        (Stores(o) /\ conf.minNodeSize = conf.maxNodeSize) =>
            LET b   == ChunkBefore(o)
                dir == GetDirection(Frame(o).ck, Loser(o).p)
            IN  /\ \A d \in Dirs : Len(b.ov[d].list) < conf.maxNodeSize
                /\ Detached(o) = IF Len(b.ov[dir].list) + 1 = conf.maxNodeSize
                                 THEN {dir} ELSE {}

C22_SplitWhenBucketReaches == [][C22_BucketStep]_vars

\* with M = 2 a chunk holds two buckets of one point each, so that its
\* overflow_count is M, and has split nothing
C22_Witness ==
    /\ conf.minNodeSize = conf.maxNodeSize
    /\ \E k \in LiveChunks :
          /\ slices[k].chunk.ovCount = conf.maxNodeSize
          /\ \A d \in Dirs : slices[k].chunk.ov[d].present
          /\ \E d, e \in Dirs :
                /\ d # e
                /\ Len(slices[k].chunk.ov[d].list) = 1
                /\ Len(slices[k].chunk.ov[e].list) = 1

(***************************************************************************)
(* C23: doOverflow(dir) runs only where, the point appended, the chunk has *)
(* overflow_count >= min_node_size, gridBlock.size() + overflow_count >=   *)
(* max_node_size, and bucket dir present with at least min_node_size       *)
(* entries.  In every other call insertOverflow detaches no bucket: it     *)
(* either appends the one point to the bucket of its octant and adds one   *)
(* to overflow_count, or returns false and changes nothing.                *)
(***************************************************************************)
\* the chunk of the call with the loser appended, as doOverflow finds it
Appended(o) ==
    LET dir == GetDirection(Frame(o).ck, Loser(o).p)
    IN  [ChunkBefore(o) EXCEPT
            !.ov[dir].list = Append(@, [pt |-> Loser(o), key |-> Frame(o).key]),
            !.ovCount = @ + 1]

C23_Step ==
    \A o \in Origins :
        (InsertStep(o) /\ CallsOverflow(o)) =>
            LET b == ChunkBefore(o)
                c == Appended(o)
                a == ChunkAfter(o)
            IN  /\ Cardinality(Detached(o)) <= 1
                /\ \A dir \in Detached(o) :
                      /\ ~Descends(o)
                      /\ c.ovCount >= conf.minNodeSize
                      /\ Len(a.grid) + c.ovCount >= conf.maxNodeSize
                      /\ c.ov[dir].present
                      /\ Len(c.ov[dir].list) >= conf.minNodeSize
                /\ (Detached(o) = {} /\ ~Descends(o)) =>
                      /\ a.ov = c.ov
                      /\ a.ovCount = c.ovCount
                /\ Descends(o) =>
                      /\ a.ov = b.ov
                      /\ a.ovCount = b.ovCount

C23_SplitOnlyWhenDue == [][C23_Step]_vars

\* a worker is inside doOverflow of a chunk of node sizes 2 and 2: the bucket
\* is detached, and its two entries are calls of cache.insert at the child
C23_Witness ==
    \E o \in Origins : \E k \in LiveChunks :
        /\ conf.minNodeSize = conf.maxNodeSize
        /\ wk[o].pc = "insert"
        /\ slices[k].chunk.ovLock = o
        /\ \E d \in Dirs : ~slices[k].chunk.ov[d].present
        /\ Len(wk[o].stack) = conf.minNodeSize + 1
        /\ wk[o].stack[Len(wk[o].stack)] = UnlockFrame(KeyOf(k))

(***************************************************************************)
(* C24: the bucket maybeOverflow splits is present, no present bucket is   *)
(* larger, and no present bucket of a lower octant index is as large.      *)
(***************************************************************************)
C24_Step ==
    \A o \in Origins :
        (InsertStep(o) /\ CallsOverflow(o)) =>
            \A dir \in Detached(o) :
                LET c == Appended(o)
                IN  /\ c.ov[dir].present
                    /\ \A d \in Dirs :
                          c.ov[d].present =>
                              Len(c.ov[d].list) <= Len(c.ov[dir].list)
                    /\ \A d \in 0 .. (dir - 1) :
                          c.ov[d].present =>
                              Len(c.ov[d].list) < Len(c.ov[dir].list)

C24_LargestLowestBucket == [][C24_Step]_vars

\* a worker is inside doOverflow of a chunk whose buckets 0 and 7 were of the
\* same size when the point appended to bucket 7 made the chunk split: bucket
\* 0 is the one detached, bucket 7 is still there
C24_Witness ==
    \E o \in Origins : \E k \in LiveChunks :
        LET c == slices[k].chunk
        IN  /\ wk[o].pc = "insert"
            /\ c.ovLock = o
            /\ ~c.ov[0].present
            /\ c.ov[7].present
            /\ Len(c.ov[7].list) = 1
            /\ wk[o].stack = <<InsFrame(Head(wk[o].stack).pt, Head(wk[o].stack).key,
                                         ChildAt(KeyOf(k), 0)),
                               UnlockFrame(KeyOf(k))>>
            /\ c.ov[7].list[1].pt.id > Head(wk[o].stack).pt.id

(***************************************************************************)
(* C25: doOverflow(dir) makes one call of cache.insert per entry of the    *)
(* detached bucket, in list order, at child_key(dir), with the key of the  *)
(* entry stepped one level along its point; the bucket is gone from the    *)
(* chunk, none of its points is left there, and overflow_count is lower by *)
(* the size the bucket had.  The calls are made one after the other: a     *)
(* step of the worker deals with the first call pending and leaves the     *)
(* later ones as they are.                                                 *)
(***************************************************************************)
\* the points a chunk holds, grid and buckets
Holds(c) ==
    {c.grid[j].pt : j \in 1 .. Len(c.grid)}
        \cup UNION {{c.ov[d].list[j].pt : j \in 1 .. Len(c.ov[d].list)} : d \in Dirs}

\* is sequence s the end of sequence t?
IsSuffix(s, t) ==
    /\ Len(s) <= Len(t)
    /\ \A j \in 1 .. Len(s) : s[j] = t[Len(t) - Len(s) + j]

\* the stack without the returns of doOverflow on top of it
RECURSIVE Returned(_)
Returned(st) ==
    IF st # <<>> /\ Head(st).t = "unlock" THEN Returned(Tail(st)) ELSE st

C25_Step ==
    \A o \in Origins :
        /\ (InsertStep(o) /\ CallsOverflow(o)) =>
              \A dir \in Detached(o) :
                  LET c    == Appended(o)
                      a    == ChunkAfter(o)
                      list == c.ov[dir].list
                      n    == Len(list)
                  IN  /\ Len(wk'[o].stack) = n + Len(wk[o].stack)
                      /\ \A j \in 1 .. n :
                            /\ wk'[o].stack[j].t = "ins"
                            /\ wk'[o].stack[j].pt = list[j].pt
                            /\ wk'[o].stack[j].ck = ChildAt(Frame(o).ck, dir)
                            /\ wk'[o].stack[j].key =
                                  StepDir(list[j].key,
                                          GetDirection(list[j].key, list[j].pt.p))
                            /\ wk'[o].stack[j].key.lv = wk'[o].stack[j].ck.lv + StartDepth
                      /\ wk'[o].stack[n + 1] = UnlockFrame(Frame(o).ck)
                      /\ a.ov[dir].list = <<>>
                      /\ \A j \in 1 .. n : list[j].pt \notin Holds(a)
                      /\ a.ovCount = c.ovCount - n
                      /\ a.ovLock = o
        /\ (InsertStep(o) /\ wk'[o].pc = "insert") =>
              IsSuffix(Returned(Tail(wk[o].stack)), wk'[o].stack)

C25_SplitHandsOver == [][C25_Step]_vars

\* doOverflow has returned: the root, of node sizes 2 and 2, has lost a bucket
\* and holds one point, and the child holds the two points of the bucket, the
\* first in its grid and the second, that came to the cell after it, in a
\* bucket
C25_Witness ==
    LET k == Dxyz(RootChunk)
    IN  /\ conf.minNodeSize = conf.maxNodeSize
        /\ k \in LiveChunks
        /\ slices[k].chunk.ovLock = 0
        /\ slices[k].chunk.ovCount = 0
        /\ Len(slices[k].chunk.grid) = 1
        /\ \E d \in Dirs :
              /\ ~slices[k].chunk.ov[d].present
              /\ Dxyz(ChildAt(RootChunk, d)) \in LiveChunks
              /\ LET ch == slices[Dxyz(ChildAt(RootChunk, d))].chunk
                 IN  /\ Len(ch.grid) = 1
                     /\ ch.ovCount = 1
                     /\ \E e \in Dirs :
                           /\ Len(ch.ov[e].list) = 1
                           /\ ch.ov[e].list[1].pt.id = ch.grid[1].pt.id + 1

(***************************************************************************)
(* C26: a bucket that a Chunk instance has lost stays absent as long as    *)
(* the instance lives.  A later call of insertOverflow for a point of that *)
(* octant returns false: the point is not stored in this chunk, its        *)
(* buckets and overflow_count are unchanged, and cache.insert goes on with *)
(* the point at child_key(dir).                                            *)
(***************************************************************************)
\* the entry of k holds the same Chunk instance before and after the step
SameInstance(k) ==
    /\ k \in LiveChunks
    /\ k \in DOMAIN slices'
    /\ slices'[k].chunk # NoChunk
    /\ slices'[k].gen = slices[k].gen

C26_Step ==
    /\ \A k \in LiveChunks : \A d \in Dirs :
          (SameInstance(k) /\ ~slices[k].chunk.ov[d].present)
              => ~slices'[k].chunk.ov[d].present
    /\ \A o \in Origins :
          (InsertStep(o) /\ CallsOverflow(o)) =>
              LET b   == ChunkBefore(o)
                  a   == ChunkAfter(o)
                  dir == GetDirection(Frame(o).ck, Loser(o).p)
              IN  ~b.ov[dir].present =>
                      /\ Descends(o)
                      /\ Head(wk'[o].stack).ck = ChildAt(Frame(o).ck, dir)
                      /\ Loser(o) \notin Holds(a)
                      /\ a.ov = b.ov
                      /\ a.ovCount = b.ovCount

C26_DetachedStaysAbsent == [][C26_Step]_vars

\* the first instance of the root, made when the hierarchy was empty, has
\* split off a bucket, doOverflow has returned, and a point that came later
\* to that octant is on its way to the child
C26_Witness ==
    LET k == Dxyz(RootChunk)
    IN  /\ k \in LiveChunks
        /\ slices[k].gen = 1
        /\ slices[k].chunk.ovLock = 0
        /\ \E o \in Origins : \E d \in Dirs :
              /\ ~slices[k].chunk.ov[d].present
              /\ hierarchy = EmptyMap
              /\ wk[o].pc = "insert"
              /\ wk[o].stack = <<InsFrame(Head(wk[o].stack).pt, Head(wk[o].stack).key,
                                           ChildAt(RootChunk, d))>>
              /\ Head(wk[o].stack).pt \notin Holds(slices[k].chunk)
              /\ \A pt \in Holds(slices[k].chunk) : pt.id < Head(wk[o].stack).pt.id

(***************************************************************************)
(* C27: whenever the overflow lock of a chunk is free, its overflow_count  *)
(* is the sum of the sizes of its present buckets, whatever calls of       *)
(* insertOverflow and doOverflow the workers have made on it.              *)
(***************************************************************************)
\* the sizes of the buckets of chunk c, 0 for an absent one, by octant
BucketSizes(c) ==
    [j \in 1 .. DirEnd |->
        IF c.ov[j - 1].present THEN Len(c.ov[j - 1].list) ELSE 0]

C27_CountIsSum ==
    \A k \in LiveChunks :
        slices[k].chunk.ovLock = 0 =>
            slices[k].chunk.ovCount = SumSeq(BucketSizes(slices[k].chunk))

\* two workers have inserted into the same chunks: the root has split off a
\* bucket and its lock is free again, and the child holds in a bucket a
\* point of another source than the point in its grid
C27_Witness ==
    LET k == Dxyz(RootChunk)
    IN  /\ k \in LiveChunks
        /\ slices[k].chunk.ovLock = 0
        /\ slices[k].chunk.ovCount = 0
        /\ \E d \in Dirs :
              /\ ~slices[k].chunk.ov[d].present
              /\ Dxyz(ChildAt(RootChunk, d)) \in LiveChunks
              /\ LET ch == slices[Dxyz(ChildAt(RootChunk, d))].chunk
                 IN  /\ ch.ovLock = 0
                     /\ ch.ovCount = 1
                     /\ Len(ch.grid) = 1
                     /\ \E e \in Dirs :
                           /\ Len(ch.ov[e].list) = 1
                           /\ ch.ov[e].list[1].pt.o # ch.grid[1].pt.o

(***************************************************************************)
(* C28: a chunk above the shared depth (depth < shared_depth) never has a  *)
(* point in a bucket.  insertOverflow returns false and changes nothing of *)
(* the chunk, so that overflow_count stays 0, the point that lost its cell *)
(* goes on to the child, and the file written for the chunk holds the      *)
(* points of its grid and no other.                                        *)
(***************************************************************************)
C28_Step ==
    /\ \A k \in DOMAIN slices' :
          (k[1] < conf.sharedDepth /\ slices'[k].chunk # NoChunk) =>
              /\ slices'[k].chunk.ovCount = 0
              /\ slices'[k].chunk.ovLock = 0
              /\ \A d \in Dirs : slices'[k].chunk.ov[d].list = <<>>
    /\ \A o \in Origins :
          (InsertStep(o) /\ CallsOverflow(o)
                         /\ Frame(o).ck.lv < conf.sharedDepth) =>
              LET b == ChunkBefore(o)
                  a == ChunkAfter(o)
              IN  /\ Descends(o)
                  /\ Head(wk'[o].stack).ck.lv = Frame(o).ck.lv + 1
                  /\ a.ov = b.ov
                  /\ a.ovCount = b.ovCount
                  /\ a.ovLock = b.ovLock
                  /\ Len(a.grid) = Len(b.grid)
                  /\ Holds(a) = (Holds(b) \cup {Frame(o).pt}) \ {Loser(o)}
    /\ \A k \in DOMAIN files' :
          (k[1] < conf.sharedDepth
              /\ (k \notin DOMAIN files \/ files'[k] # files[k])) =>
              /\ Len(files'[k]) = Len(slices[k].chunk.grid)
              /\ hierarchy'[k] = Len(slices[k].chunk.grid)
              /\ \A j \in 1 .. Len(files'[k]) : files'[k][j] = slices[k].chunk.grid[j].pt

C28_NoOverflowAboveSharedDepth == [][C28_Step]_vars

\* a build of a subset is complete: the root, above the shared depth, was
\* written with the one point of its grid, and the two points that lost that
\* cell were written with a chunk of the next level
C28_Witness ==
    /\ conf.sharedDepth = 1
    /\ RunReturned
    /\ Dxyz(RootChunk) \in DOMAIN files
    /\ Len(files[Dxyz(RootChunk)]) = 1
    /\ hierarchy[Dxyz(RootChunk)] = 1
    /\ \E k \in DOMAIN files : k[1] = 1 /\ Len(files[k]) = 2
    /\ counter = 3

(***************************************************************************)
(* C29: ChunkCache::insert returns, and then the point, and every point it *)
(* displaced on the way, is in exactly one chunk, the chunk of the given   *)
(* key or one below it on the octant path of the point.  In every          *)
(* iteration key and chunk key are at the same depth, and the loop goes on *)
(* to the child only with the point Chunk::insert returned false for.      *)
(***************************************************************************)
\* how often x occurs in sequence s
RECURSIVE Count(_, _)
Count(s, x) ==
    IF s = <<>> THEN 0
    ELSE (IF Head(s) = x THEN 1 ELSE 0) + Count(Tail(s), x)

\* the points of chunk c, slot by slot and bucket by bucket
HeldSeq(c) ==
    [j \in 1 .. Len(c.grid) |-> c.grid[j].pt] \o OverflowPoints(c.ov, 0)

\* the chunks in memory; a chunk addRef is still loading is not yet one
InMemory == {k \in LiveChunks : slices[k].lock = 0}

\* in how many places point pt is: in a chunk in memory, in the file of a
\* chunk that is not in memory, or as the argument of a call under way
Occurrences(pt) ==
      SumMap([k \in InMemory |-> Count(HeldSeq(slices[k].chunk), pt)], InMemory)
    + SumMap([k \in DOMAIN files \ InMemory |-> Count(files[k], pt)],
             DOMAIN files \ InMemory)
    + SumMap([o \in Origins |->
                Count([j \in 1 .. Len(wk[o].stack) |-> wk[o].stack[j].pt], pt)],
             Origins)

\* the points whose cache.insert has been called
Inserted ==
    UNION {{[p |-> delivered[o][i], o |-> o, id |-> i - 1] :
               i \in {n \in 1 .. Len(delivered[o]) :
                         n <= wk[o].pointId /\ Accepted(conf, delivered[o][n])}}
              : o \in Origins}

C29_OneChunk ==
    /\ \A pt \in Inserted : Occurrences(pt) = 1
    /\ \A o \in Origins : \A j \in 1 .. Len(wk[o].stack) :
          wk[o].stack[j].t = "ins" =>
              /\ wk[o].stack[j].key.lv = wk[o].stack[j].ck.lv + StartDepth
              /\ wk[o].stack[j].ck = ChunkInit(wk[o].stack[j].pt.p, wk[o].stack[j].ck.lv)
              /\ wk[o].stack[j].key = KeyInit(wk[o].stack[j].pt.p, wk[o].stack[j].ck.lv)
    /\ \A k \in LiveChunks : \A j \in 1 .. Len(HeldSeq(slices[k].chunk)) :
          KeyOf(k) = ChunkInit(HeldSeq(slices[k].chunk)[j].p, k[1])

C29_Step ==
    \A o \in Origins :
        InsertStep(o) =>
            IF CallsOverflow(o)
            THEN /\ Descends(o) <=> Loser(o) \notin Holds(ChunkAfter(o))
                                      /\ Detached(o) = {}
                 /\ Descends(o) =>
                       Head(wk'[o].stack).ck.lv = Frame(o).ck.lv + 1
            ELSE /\ Frame(o).pt \in Holds(ChunkAfter(o))
                 /\ \/ Returned(Tail(wk[o].stack)) = <<>>
                    \/ wk'[o].stack = Returned(Tail(wk[o].stack))

Installing(o) == wk[o].pc = "insert"

InsertReturned(o) == wk[o].pc \in {"read", "after", "done", "idle", "queued"}

C29_InsertInstalls ==
    /\ []C29_OneChunk
    /\ [][C29_Step]_vars
    /\ \A o \in Origins : Installing(o) ~> InsertReturned(o)

\* a worker is inside a call of cache.insert that does not return: addRef
\* holds the lock of the entry of a chunk that was written before, and the
\* load of that chunk has called cache.insert for the same key
C29_InsertHangs ==
    \E o \in Origins :
        /\ wk[o].pc = "hung"
        /\ wk[o].stack # <<>>
        /\ LET k == Dxyz(Head(wk[o].stack).ck)
           IN  /\ k \in DOMAIN slices
               /\ slices[k].lock = o
               /\ k \in owned
               /\ k \in DOMAIN files
               /\ hierarchy[k] > 0
               /\ ClipperGet(clippers[o], k) = {}
        /\ ~ENABLED Next

(***************************************************************************)
(* C30: addRef under concurrent callers.  An entry holds one Chunk at a    *)
(* time: a call for a key whose entry holds a Chunk returns that Chunk and *)
(* constructs nothing, a call for an entry without one constructs exactly  *)
(* one, and at most one thread is loading a chunk.  Every Clipper that     *)
(* holds the key holds the instance the entry holds, and every call raises *)
(* the count of the entry by one, so that the count is the number of       *)
(* Clippers holding the key.                                               *)
(***************************************************************************)
\* the workers whose Clipper holds a reference for key k
Holders(cls, k) == {o \in Origins : k \in Held(cls[o])}

\* worker o takes a reference for key k in this step: addRef has returned
TakesRef(o, k) == k \in Held(clippers'[o]) \ Held(clippers[o])

\* the workers inside a load that addRef started for key k
Loading(k) ==
    {o \in Origins :
        /\ wk[o].pc = "hung"
        /\ wk[o].stack # <<>>
        /\ Dxyz(Head(wk[o].stack).ck) = k}

C30_Step ==
    /\ \A k \in DOMAIN slices' :
          /\ slices'[k].refs = Cardinality(Holders(clippers', k))
          /\ \A o \in Holders(clippers', k) : \A q \in Pointers(clippers'[o]) :
                q.k = k => q.g = slices'[k].gen /\ slices'[k].chunk # NoChunk
    /\ \A o \in Origins : \A k \in DOMAIN slices' :
          TakesRef(o, k) =>
              /\ slices'[k].refs = RefsOf(slices, k) + 1
              /\ \A p \in Origins \ {o} : ~TakesRef(p, k)
              /\ IF k \in LiveChunks
                 THEN /\ slices'[k].gen = slices[k].gen
                      /\ Holds(slices[k].chunk) \subseteq
                            Holds(slices'[k].chunk) \cup
                               {wk'[o].stack[j].pt : j \in 1 .. Len(wk'[o].stack)}
                 ELSE slices'[k].gen =
                         (IF k \in DOMAIN slices THEN slices[k].gen ELSE 0) + 1
    /\ \A k \in DOMAIN slices' :
          (k \in DOMAIN slices /\ slices'[k].gen # slices[k].gen) =>
              /\ slices[k].chunk = NoChunk
              /\ slices'[k].gen = slices[k].gen + 1
    /\ \A k \in DOMAIN slices :
          /\ Cardinality(Loading(k)) <= 1
          /\ Loading(k) # {} => Holders(clippers, k) = {} /\ slices[k].refs = 0

Materializes(o) ==
    /\ wk[o].pc = "insert"
    /\ wk'[o] # wk[o]
    /\ ClipperGet(clippers[o], Dxyz(Frame(o).ck)) = {}
    /\ Dxyz(Frame(o).ck) \notin LiveChunks

\* worker o is inside Chunk::load after this step
Loads(o) == wk'[o].pc = "hung"

\* the points the most recent save of chunk k wrote
LastSaved(k) == IF k \in DOMAIN files THEN Len(files[k]) ELSE 0

C31_Step ==
    \A o \in Origins :
        /\ (wk[o].pc = "insert" /\ Loads(o)) => Materializes(o)
        /\ Materializes(o) =>
              LET k == Dxyz(Frame(o).ck)
              IN  /\ Loads(o) <=> k \in owned
                  /\ k \notin owned =>
                        /\ owned' = owned \cup {k}
                        /\ Holds(ChunkAfter(o)) = {Frame(o).pt}
                  /\ k \in owned =>
                        /\ owned' = owned
                        /\ HierGet(hierarchy, k) > 0
                        /\ HierGet(hierarchy, k) = LastSaved(k)
                        /\ hierarchy' = hierarchy
                        /\ files' = files

\* C31: an addRef that constructs a Chunk calls Chunk::load exactly when the
\* key is in m_owned, and otherwise only adds the key to m_owned and loads
\* nothing; an addRef for an entry that holds a Chunk never loads; the np of
\* a load, hierarchy[dxyz], is positive and is the number of points the most
\* recent save of the chunk wrote, with the background serializations
\* interleaved in every way.
C31_LoadsWhenOwned == [][C31_Step]_vars

\* a load is under way: the worker is inside addRef for a chunk that was
\* written with the count the hierarchy has
C31_Witness ==
    \E o \in Origins :
        /\ wk[o].pc = "hung"
        /\ LET k == Dxyz(Frame(o).ck)
           IN  /\ k \in owned
               /\ k \in DOMAIN slices
               /\ slices[k].lock = o
               /\ HierGet(hierarchy, k) > 0
               /\ HierGet(hierarchy, k) = LastSaved(k)
               /\ pool # {}

(***************************************************************************)
(* C32: the generations of a Clipper.                                      *)
(***************************************************************************)
\* the chunk keys a Clipper used (get or set) since its last clip
SlowKeys(cl) == {q.k : q \in cl.slow}

C32_Step ==
    \A o \in Origins :
        /\ ClipStep(o) =>
              /\ Held(clippers[o]) \ Held(clippers'[o]) = AgedOnly(clippers[o])
              /\ \A k \in AgedOnly(clippers[o]) :
                    RefsOf(slices', k) = RefsOf(slices, k) - 1
              /\ \A k \in SlowKeys(clippers[o]) :
                    /\ k \in Held(clippers'[o])
                    /\ RefsOf(slices', k) = RefsOf(slices, k)
              /\ clippers'[o].aged = clippers[o].slow
              /\ clippers'[o].slow = {}
              /\ clippers'[o].fast = {}
        /\ InsertStep(o) =>
              LET k == Dxyz(Frame(o).ck)
              IN  /\ k \in SlowKeys(clippers'[o])
                  /\ Find(clippers'[o].fast, k) # {}
                  /\ SlowKeys(clippers'[o]) \ SlowKeys(clippers[o]) \subseteq {k}
                  /\ clippers[o].slow \subseteq clippers'[o].slow
                  /\ clippers'[o].aged = clippers[o].aged
        /\ (~ClipStep(o) /\ ~InsertStep(o) /\ wk'[o].pc # "done") =>
              clippers'[o] = clippers[o]

\* every fast slot points to a Chunk the Clipper holds in slow, and that
\* Chunk is the one its entry holds
C32_FastIsHeld ==
    \A o \in Origins : \A q \in clippers[o].fast :
        /\ q \in clippers[o].slow
        /\ Valid(slices, q)
        /\ slices[q.k].refs >= 1

\* C32: a clip releases exactly the entries of aged that are not in slow,
\* each by one reference, then aged is the old slow and slow and every fast
\* slot are empty; a get or set puts the chunk into slow and fast and nothing
\* else changes slow or aged.  So a chunk used since the last clip survives
\* the next clip, is released by the one after if it was not used in
\* between, and a fast slot never points to a released chunk.
C32_Generations == []C32_FastIsHeld /\ [][C32_Step]_vars

\* after a clip the worker has used one chunk again, still holds one of the
\* generation before without having used it, and has released another
C32_Witness ==
    \E o \in Origins :
        /\ wk[o].pc = "insert"
        /\ clippers[o].fast # {}
        /\ AgedOnly(clippers[o]) # {}
        /\ \E k \in owned : k \notin Held(clippers[o])

(***************************************************************************)
(* C33: the unreferenced chunks kept in memory.                            *)
(***************************************************************************)
\* the entries that hold a Chunk nobody references and that no addRef is
\* constructing at the moment
Retained == {k \in Unreferenced(slices) : slices[k].lock = 0}

\* some Clipper has clipped: it holds the generation before and nothing newer
Clipped(o) == clippers[o].aged # {}

\* C33: whenever the background pool has no task left, after clips, the
\* destruction of Clippers or in between, the entries that hold a Chunk with
\* a reference count of zero are at most cacheSize.
C33_UnreferencedBounded ==
    pool = {} => Cardinality(Retained) <= CacheSize

\* a clip has released a chunk, the pool has written and erased it and is
\* empty, and the worker goes on inserting
C33_Witness ==
    \E o \in Origins :
        /\ wk[o].pc = "insert"
        /\ Clipped(o)
        /\ pool = {}
        /\ \E k \in owned : k \in DOMAIN files /\ k \notin DOMAIN slices

(***************************************************************************)
(* C34: the counts mergeOne copies.                                        *)
(***************************************************************************)
\* the mergeOne of subset id copies the node it has come to
Copies(id) ==
    /\ wk[id].pc = "after"
    /\ mg.todo[id] # <<>>
    /\ mg'.todo[id] # mg.todo[id]

C34_Step ==
    \A id \in Origins :
        Copies(id) =>
            LET key == Head(mg.todo[id])
            IN  /\ key[1] >= mg.shared
                /\ mg.src[id].hier[key] # 0
                /\ HierGet(hierarchy, key) = 0
                /\ hierarchy' = HierSet(hierarchy, key, mg.src[id].hier[key])
                /\ mg'.todo[id] = Tail(mg.todo[id])

\* every count of the destination at or beyond the shared depth is the count
\* of the one subset that has the node, and no assert has failed
C34_CountsKept ==
    /\ mg.pc # "aborted"
    /\ mg.pc \notin {"none", "start", "load", "threw"} =>
          \A k \in DOMAIN hierarchy :
              (k[1] >= mg.shared /\ hierarchy[k] # 0) =>
                  \E id \in mg.loaded :
                      /\ HierGet(mg.src[id].hier, k) = hierarchy[k]
                      /\ \A other \in Origins \ {id} :
                            HierGet(mg.src[other].hier, k) = 0
    /\ mg.pc \in {"save", "done"} =>
          \A id \in mg.merged : \A k \in DOMAIN mg.src[id].hier :
              k[1] >= mg.shared => hierarchy[k] = mg.src[id].hier[k]

\* C34: whenever mergeOne copies a node with a non-zero count at or beyond
\* the shared depth, the destination hierarchy has no count for that key (the
\* assert holds), however the mergeOne tasks and the serializations of the
\* cache interleave; the copy changes that key only, so every such count of
\* the merged hierarchy is the count of the one subset that has the node.
C34_AssertHolds == []C34_CountsKept /\ [][C34_Step]_vars

\* the two mergeOne tasks copy at the same time: both have nodes left, and a
\* node of one of them is in the destination already
C34_Witness ==
    /\ \A id \in Origins : wk[id].pc = "after" /\ mg.todo[id] # <<>>
    /\ \E k \in DOMAIN hierarchy : k[1] >= mg.shared /\ hierarchy[k] # 0
    /\ mg.shared = 1

(***************************************************************************)
(* C35: no thread waits for ever.                                          *)
(***************************************************************************)
\* worker o is inside Chunk::load, whose cache.insert for the chunk's own key
\* found nothing in the Clipper and came back to addRef
Reenters(o) == wk[o].pc = "hung"

\* worker o, inside cache.insert, waits for no lock: not for the lock of the
\* entry in addRef, not for the overflow lock of the chunk in insertOverflow
FreeToInsert(o) ==
    /\ wk[o].pc = "insert"
    /\ LET k == Dxyz(Frame(o).ck)
       IN  /\ (ClipperGet(clippers[o], k) = {} /\ k \in DOMAIN slices)
                 => slices[k].lock = 0
           /\ (/\ k \in LiveChunks
               /\ SlotOf(slices[k].chunk.grid, Frame(o).key.pos) # 0
               /\ Frame(o).ck.lv >= conf.sharedDepth)
                 => slices[k].chunk.ovLock = 0

\* some thread has a step to take: a worker, a thread of the work pool with
\* a task to start, a background task, the inserter or the monitor
CanStep ==
    \/ \E o \in Origins : FreeToInsert(o)
    \/ \E o \in Origins : wk[o].pc \in {"read", "after"}
    \/ \E o \in Origins :
          /\ wk[o].pc = "queued"
          /\ Cardinality(Running(wk)) < Min2(conf.work, NumSources)
    \/ \E t \in pool : t.k \in DOMAIN slices => slices[t.k].lock = 0
    \/ ri.pc = "loop"
    \/ mon = "run" /\ (conf.interval = 0 \/ done)

\* C35: in every reachable state in which a worker is inside cache.insert
\* some thread can take a step, and the cache.insert of Chunk::load never
\* comes back to addRef for the key that is being materialized.
C35_NoDeadlock ==
    /\ \A o \in Origins : ~Reenters(o)
    /\ (\E o \in Origins : wk[o].pc \in {"insert", "hung"}) => CanStep

\* a worker is inside the load of a chunk another worker had materialized,
\* waiting for the lock of the entry it holds itself, the inserter waits for
\* the worker in pool.join, and no thread has a step left
C35_Deadlock ==
    \E h \in Origins :
        /\ Reenters(h)
        /\ slices[Dxyz(Frame(h).ck)].lock = h
        /\ Dxyz(Frame(h).ck) \in owned
        /\ \E o \in Origins \ {h} : wk[o].pc = "done" /\ delivered[o] # <<>>
        /\ ri.pc = "join"
        /\ ~CanStep

(***************************************************************************)
(* C36: the reference count and the Clippers.                              *)
(***************************************************************************)
\* the chunk keys of the generation before that a Clipper has not used since
AgedKeys(cl) == {q.k : q \in cl.aged}

\* the innermost call of worker o finds its chunk by Clipper::get
Gets(o) == InsertStep(o) /\ ClipperGet(clippers[o], Dxyz(Frame(o).ck)) # {}

\* every entry no addRef is at work on has as many references as there are
\* Clippers that hold its chunk, and every chunk a Clipper holds has an entry
C36_CountIsHolders ==
    /\ \A k \in DOMAIN slices :
          slices[k].lock = 0 => slices[k].refs = Cardinality(Holders(clippers, k))
    /\ \A o \in Origins : Held(clippers[o]) \subseteq DOMAIN slices

C36_Step ==
    \A o \in Origins :
        Gets(o) =>
            /\ \A k \in (DOMAIN slices) \cup (DOMAIN slices') :
                  RefsOf(slices', k) = RefsOf(slices, k)
            /\ Held(clippers'[o]) = Held(clippers[o])
            /\ Dxyz(Frame(o).ck) \in SlowKeys(clippers'[o])

\* C36: whenever no addRef or release is under way, the reference count of
\* every slice entry is the number of Clippers that hold the chunk in slow or
\* aged, a Clipper that holds it in both counting once; a Clipper::get changes
\* no count, also when it promotes the chunk from aged back to slow and fast.
C36_RefCountIsHolders == []C36_CountIsHolders /\ [][C36_Step]_vars

\* a worker has promoted a chunk from aged back to slow and holds it in
\* both: the count is one
C36_Witness ==
    \E o \in Origins : \E k \in DOMAIN slices :
        /\ k \in SlowKeys(clippers[o]) \cap AgedKeys(clippers[o])
        /\ Find(clippers[o].fast, k) # {}
        /\ Holders(clippers, k) = {o}
        /\ slices[k].refs = 1

(***************************************************************************)
(* C37: the points of an earlier run in a build that is continued.         *)
(***************************************************************************)
\* the points the sources inserted by the earlier run had brought in
PriorSum ==
    SumMap([o \in Origins |-> IF manifest[o].before
                              THEN CountInside(conf, delivered[o]) ELSE 0],
           Origins)

\* the points of the earlier run that are in no chunk file and in no chunk
\* in memory
PriorLost ==
    {pt \in {PriorPoint(id) : id \in 0 .. 1} :
        /\ pt.id < PriorSum
        /\ \A k \in DOMAIN files : \A j \in 1 .. Len(files[k]) : files[k][j] # pt
        /\ \A k \in LiveChunks : pt \notin Holds(slices[k].chunk)}

\* the save of this run has been made
Saved == ri.pc \in {"saved", "returned"}

C37_SumKept == Saved => HierSum(hierarchy) = PriorSum + counter

C37_Step ==
    \A o \in Origins :
        (Materializes(o) /\ Dxyz(Frame(o).ck) \notin owned
                         /\ HierGet(hierarchy, Dxyz(Frame(o).ck)) > 0) =>
            \A pt \in {files[Dxyz(Frame(o).ck)][j] :
                          j \in 1 .. Len(files[Dxyz(Frame(o).ck)])} :
                Occurrences(pt)' >= 1

\* C37: in a build continued from an earlier run, the first materialization
\* of a chunk that has a hierarchy count leaves its stored points in place
\* (in the chunk, in its file or on their way to a child), and after the save
\* the sum of the hierarchy counts is the sum the earlier run left plus the
\* number of points inserted in this run.
C37_ResumeKeepsPoints == []C37_SumKept /\ [][C37_Step]_vars

\* the continued build has saved: the hierarchy counts the points of this
\* run only, and a point of the earlier run is in no file any more
C37_PointsLost ==
    /\ ri.pc = "returned"
    /\ counter > 0
    /\ PriorSum > 0
    /\ HierSum(hierarchy) < PriorSum + counter
    /\ PriorLost # {}
    /\ \A o \in Origins : wk[o].pc \in {"idle", "done"}

(***************************************************************************)
(* C38: the depth of the chunk keys.                                       *)
(***************************************************************************)
\* the chunk keys that have come to addRef or to a Clipper: those of the
\* entries, of the pointers the Clippers hold, and of the calls under way
KeysReached ==
    DOMAIN slices
        \cup UNION {{q.k : q \in Pointers(clippers[o])} : o \in Origins}
        \cup UNION {{Dxyz(wk[o].stack[j].ck) : j \in 1 .. Len(wk[o].stack)} :
                       o \in Origins}

\* C38: every chunk key that comes to addRef or to a Clipper has a depth
\* below maxDepth, whatever the input, and no call indexes the per-depth
\* arrays past their end.
C38_DepthInRange ==
    /\ \A k \in KeysReached : k[1] < MaxDepth
    /\ \A o \in Origins : wk[o].pc # "ub"

\* the source has delivered maxDepth + 1 points at one place; each but the
\* last fills the grid cell of a chunk one level further down, and the call
\* for the last has come to clipper.get with a chunk key of depth maxDepth
C38_OutOfRange ==
    \E o \in Origins :
        /\ wk[o].pc = "ub"
        /\ Frame(o).ck.lv = MaxDepth
        /\ Len(delivered[o]) = MaxDepth + 1
        /\ \A j \in 1 .. Len(delivered[o]) : delivered[o][j] = <<3, 3, 3>>
        /\ \A d \in 0 .. (MaxDepth - 1) : \E k \in LiveChunks : k[1] = d

(***************************************************************************)
(* C39: the hierarchy is a tree.                                           *)
(***************************************************************************)
\* the key of the chunk one level up that contains chunk k
Parent(k) == <<k[1] - 1, k[2] \div 2, k[3] \div 2, k[4] \div 2>>

\* C39: once Builder::run has returned, every chunk with a count other than
\* the root has a parent with a count: the hierarchy is connected from the
\* root, however splits, evictions and the workers interleaved.
C39_Connected ==
    RunReturned =>
        \A k \in DOMAIN hierarchy :
            (hierarchy[k] # 0 /\ k[1] > 0) => HierGet(hierarchy, Parent(k)) # 0

\* a completed build of two workers that has left chunks on three levels
C39_Witness ==
    /\ RunReturned
    /\ \A o \in Origins : delivered[o] # <<>>
    /\ \E k \in DOMAIN hierarchy : k[1] = 2 /\ hierarchy[k] # 0
    /\ \E k \in DOMAIN hierarchy : k[1] = 1 /\ hierarchy[k] # 0
    /\ HierGet(hierarchy, Dxyz(RootChunk)) # 0

(***************************************************************************)
(* C40: the total of ept.json and the counts of the hierarchy.             *)
(***************************************************************************)
\* source.info.points is what the source holds: no source was inserted by
\* an earlier run, a source read to its end has delivered that many points,
\* and a source whose insert failed has delivered no more than that
PointsAsScanned ==
    \A o \in Origins :
        /\ ~manifest[o].before
        /\ manifest[o].inserted =>
              IF manifest[o].errors = <<>>
              THEN Len(delivered[o]) = manifest[o].points
              ELSE Len(delivered[o]) <= manifest[o].points

\* the total that call n of save has written to ept.json, and the sum of the
\* counts that the same call has written to the hierarchy file
EptPoints(n) == output[n].ept[1].points
HierarchyPoints(n) == HierSum(output[n].hierarchy[1].nodes)

\* C40: the total point count that saveMetadata writes to ept.json equals
\* the sum of the hierarchy counts written by the same save, also when a
\* source failed during its insert or held points outside the bounds.
C40_TotalIsHierarchySum ==
    \A n \in 1 .. Len(output) :
        (SaveComplete(n) /\ PointsAsScanned) =>
            EptPoints(n) = HierarchyPoints(n)

\* a completed save of a build in which one source failed before a point
\* of it was read and another delivered its one point outside the
\* conforming bounds: ept.json counts both points, the hierarchy none
C40_TotalOvercounts ==
    /\ SaveComplete(1)
    /\ PointsAsScanned
    /\ \E o \in Origins, q \in Origins :
          /\ manifest[o].inserted /\ manifest[o].errors # <<>>
          /\ manifest[o].points = 1 /\ delivered[o] = <<>>
          /\ manifest[q].inserted /\ manifest[q].errors = <<>>
          /\ delivered[q] = << <<7, 7, 7>> >>
    /\ EptPoints(1) = 2
    /\ HierarchyPoints(1) = 0

====
